---------------------------- MODULE Spec2Model ----------------------------
(***************************************************************************)
(* MAVLink telemetry of the flight controller                              *)
(* (src/main/telemetry/mavlink.c): the stream rate scheduler and the       *)
(* mission (waypoint list) transfer handlers.                              *)
(*                                                                         *)
(* The mission list itself lives in the navigation subsystem               *)
(* (setWaypoint, getWaypoint, getWaypointCount, resetWaypointList,         *)
(* isWaypointListValid); that code is outside mavlink.c and is modelled    *)
(* here from its description in the specification.                         *)
(***************************************************************************)
EXTENDS Integers, Sequences, FiniteSets, TLC

(***************************************************************************)
(* Bounds of the model                                                     *)
(***************************************************************************)
\* Capacity of the mission list (NAV_MAX_WAYPOINTS of navigation.h), scaled down.
NAV_MAX_WAYPOINTS == 3

\* Length, in seconds, of the run over which stream triggers are counted.
MaxSeconds == 2

\* Largest stream rate (Hz) a configuration holds; above the cycle rate.
MaxConfigRate == 52

\* Calls of handleMAVLinkTelemetry in a run of the link.
MaxTicks == 4

\* Frames (or runs of stray bytes) the serial port buffers between two calls.
MaxRxFrames == 2

\* Calls of the status text sender in a run of the clock.
MaxTextCalls == 8

(***************************************************************************)
(* Program constants                                                       *)
(***************************************************************************)
TELEMETRY_MAVLINK_MAXRATE == 50

mavSystemId == 1

\* The null pointer.
NULL == "NULL"

Streams ==
    << "EXTENDED_STATUS", "RC_CHANNELS", "POSITION", "EXTRA1", "EXTRA2", "EXTRA3" >>

StreamSet == { Streams[i] : i \in 1..Len(Streams) }

\* The rates the array is initialised with.
DefaultRates ==
    [ s \in StreamSet |->
        CASE s = "EXTENDED_STATUS" -> 2
          [] s = "RC_CHANNELS"     -> 5
          [] s = "POSITION"        -> 2
          [] s = "EXTRA1"          -> 10
          [] s = "EXTRA2"          -> 2
          [] s = "EXTRA3"          -> 1 ]

\* Configurations of the stream rates (Hz, uint8_t): the default rates with
\* one stream set to any rate up to MaxConfigRate.
RateConfigs ==
    { [ DefaultRates EXCEPT ![s] = r ] : s \in StreamSet, r \in 0 .. MaxConfigRate }

VARIABLES
    incomingMissionWpCount,     \* static int incomingMissionWpCount
    incomingMissionWpSequence,  \* static int incomingMissionWpSequence
    waypointList,               \* navigation: slots 1..NAV_MAX_WAYPOINTS
    waypointCount,              \* navigation: length of the list
    waypointListValid,          \* navigation: verdict of the list validation
    armed,                      \* ARMING_FLAG(ARMED)
    mavRecvMsg,                 \* the last frame decoded: its message id and target
    txBuf,                      \* messages written to the port by the last call
    handled,                    \* return value of the last handler
    upload,                     \* history: progress of a strictly ordered upload
    mavRates,                   \* static uint8_t mavRates[]
    mavTicks,                   \* static uint8_t mavTicks[]
    cycle,                      \* history: calls of processMAVLinkTelemetry
    trigCount,                  \* history: triggers per stream
    batchBuf,                   \* messages written by the last scheduled batch
    pollPos,                    \* streams the batch under way has polled so far
    rxQueue,                    \* serial port: what waits to be read, oldest first
    incomingRequestServed,      \* static bool incomingRequestServed
    lastMavlinkMessage,         \* static timeUs_t lastMavlinkMessage
    currentTimeUs,              \* the time handleMAVLinkTelemetry was last called with
    batchRun,                   \* history: the last cycle ran the scheduled batch
    framesDecoded,              \* history: frames the last decoder call completed
    ticks,                      \* history: calls of handleMAVLinkTelemetry
    mavlinkTelemetryEnabled,    \* static bool mavlinkTelemetryEnabled
    mavlinkPort,                \* static serialPort_t *mavlinkPort
    expiryUs,                   \* history: the last call that found the interval elapsed
    accepted,                   \* history: the item an upload stored last
    battery,                    \* features and readings of the battery subsystem
    flight,                     \* failsafe, navigation and flight mode state
    millis,                     \* millis(), uint32_t: 1000 * k + r milliseconds
    textLog                     \* history: the status texts selected, with their times

missionVars ==
    << incomingMissionWpCount, incomingMissionWpSequence, waypointList,
       waypointCount, waypointListValid, armed, mavRecvMsg, txBuf, handled,
       upload >>

schedVars == << mavRates, mavTicks, cycle, trigCount, batchBuf, pollPos >>

linkVars ==
    << rxQueue, incomingRequestServed, lastMavlinkMessage, currentTimeUs,
       batchRun, framesDecoded, ticks, mavlinkTelemetryEnabled, mavlinkPort,
       expiryUs >>

envVars == << battery, flight, millis, textLog >>

vars == << missionVars, schedVars, linkVars, accepted, envVars >>

(***************************************************************************)
(* Messages                                                                *)
(***************************************************************************)
\* mavRecvMsg keeps the header of the decoded frame; the payload is read by
\* the handler alone, in the step that decodes the frame.
Header(msg) == [ msgid |-> msg.msgid, target_system |-> msg.target_system ]

NoMsg == [ msgid |-> "NONE", target_system |-> 0 ]

\* A slot of the list that holds no waypoint (zeroed storage).
NoWp == [ action |-> "NONE", lat |-> 0, lon |-> 0, alt |-> 0, flag |-> "NONE" ]

NoUpload == [ n |-> 0, k |-> 0, on |-> FALSE ]

\* target_system of an inbound message: ours, or another system's.
Targets == { mavSystemId, mavSystemId + 1 }

\* The peer: mavRecvMsg.sysid and mavRecvMsg.compid.
PeerSysIds == { 255 }
PeerCompIds == { 190 }

\* Sequence numbers and counts carried by inbound messages (uint16_t): up to
\* one beyond the capacity of the list.
SeqValues == 0 .. (NAV_MAX_WAYPOINTS + 1)

Commands == { "MAV_CMD_NAV_WAYPOINT", "MAV_CMD_NAV_RETURN_TO_LAUNCH", "MAV_CMD_NAV_LAND" }

Frames == { "MAV_FRAME_GLOBAL_RELATIVE_ALT", "MAV_FRAME_MISSION", "MAV_FRAME_GLOBAL" }

\* Coordinates carried by uploaded items (floats): 47.0 and 8.0 degrees,
\* 120.0 meters.
LatDegrees == { [ m |-> 47 * 262144, e |-> -18 ] }
LonDegrees == { [ m |-> 8 * 1048576, e |-> -20 ] }
AltMeters == { [ m |-> 120 * 131072, e |-> -17 ] }

\* The address check left out.
Mutant_ForUsAnyTarget(msg) == TRUE

\* Check if this message is for us
ForUs(msg) == msg.target_system = mavSystemId

\* An item as the transfer protocol wants it: continued automatically, a
\* waypoint in the relative-altitude frame or a return-to-launch in the
\* mission frame.
ValidItem(msg) ==
    /\ msg.autocontinue # 0
    /\ \/ msg.command = "MAV_CMD_NAV_WAYPOINT" /\ msg.frame = "MAV_FRAME_GLOBAL_RELATIVE_ALT"
       \/ msg.command = "MAV_CMD_NAV_RETURN_TO_LAUNCH" /\ msg.frame = "MAV_FRAME_MISSION"

ClearMsgs ==
    [ msgid : { "MISSION_CLEAR_ALL" }, sysid : PeerSysIds, compid : PeerCompIds,
      target_system : Targets ]

\* Count announcements: every count when addressed to this system, the
\* first two counts when addressed to another one.
CountMsgs ==
    [ msgid : { "MISSION_COUNT" }, sysid : PeerSysIds, compid : PeerCompIds,
      target_system : { mavSystemId }, count : SeqValues ]
    \cup
    [ msgid : { "MISSION_COUNT" }, sysid : PeerSysIds, compid : PeerCompIds,
      target_system : Targets \ { mavSystemId }, count : { 0, 1 } ]

\* The checked fields of an item upload.
ItemKinds == [ command : Commands, frame : Frames, autocontinue : { 0, 1 } ]

ValidKinds ==
    { [ command |-> "MAV_CMD_NAV_WAYPOINT", frame |-> "MAV_FRAME_GLOBAL_RELATIVE_ALT",
        autocontinue |-> 1 ],
      [ command |-> "MAV_CMD_NAV_RETURN_TO_LAUNCH", frame |-> "MAV_FRAME_MISSION",
        autocontinue |-> 1 ] }

\* Item uploads carrying one of these positions.
ItemMsgsAt(targets, seqs, kinds, positions) ==
    { [ msgid |-> "MISSION_ITEM", sysid |-> sys, compid |-> comp,
        target_system |-> t, seq |-> n, command |-> k.command,
        frame |-> k.frame, autocontinue |-> k.autocontinue,
        x |-> pos.x, y |-> pos.y, z |-> pos.z ] :
        sys \in PeerSysIds, comp \in PeerCompIds, t \in targets, n \in seqs,
        k \in kinds, pos \in positions }

ItemMsgsOf(targets, seqs, kinds) ==
    ItemMsgsAt(targets, seqs, kinds, [ x : LatDegrees, y : LonDegrees, z : AltMeters ])

\* Item uploads addressed to this system: well-formed ones with every
\* sequence number, every combination of the checked fields with the first
\* two sequence numbers.
ItemMsgsForUs ==
    ItemMsgsOf({ mavSystemId }, SeqValues, ValidKinds)
        \cup ItemMsgsOf({ mavSystemId }, { 0, 1 }, ItemKinds)

\* Item uploads: those addressed to this system, and well-formed ones
\* addressed to another system.
ItemMsgs ==
    ItemMsgsForUs \cup ItemMsgsOf(Targets \ { mavSystemId }, { 0, 1 }, ValidKinds)

RequestListMsgs ==
    [ msgid : { "MISSION_REQUEST_LIST" }, sysid : PeerSysIds, compid : PeerCompIds,
      target_system : Targets ]

RequestMsgs ==
    [ msgid : { "MISSION_REQUEST" }, sysid : PeerSysIds, compid : PeerCompIds,
      target_system : { mavSystemId }, seq : SeqValues ]
    \cup
    [ msgid : { "MISSION_REQUEST" }, sysid : PeerSysIds, compid : PeerCompIds,
      target_system : Targets \ { mavSystemId }, seq : { 0, 1 } ]

\* mavlink_msg_mission_ack_pack
MissionAck(to, type) ==
    [ msgid |-> "MISSION_ACK", target_system |-> to.sysid,
      target_component |-> to.compid, type |-> type ]

\* mavlink_msg_mission_request_pack
MissionRequest(to, seq) ==
    [ msgid |-> "MISSION_REQUEST", target_system |-> to.sysid,
      target_component |-> to.compid, seq |-> seq ]

\* mavlink_msg_mission_count_pack
MissionCount(to, count) ==
    [ msgid |-> "MISSION_COUNT", target_system |-> to.sysid,
      target_component |-> to.compid, count |-> count ]


\* mavlink_msg_mission_item_pack, as handleIncoming_MISSION_REQUEST fills it
MissionItem(to, seq, frame, command, x, y, z) ==
    [ msgid |-> "MISSION_ITEM", target_system |-> to.sysid,
      target_component |-> to.compid, seq |-> seq, frame |-> frame,
      command |-> command, current |-> 0, autocontinue |-> 1,
      x |-> x, y |-> y, z |-> z ]

(***************************************************************************)
(* Single-precision arithmetic of the unit conversions.  A float is        *)
(* m * 2^e with m = 0 or 2^23 <= |m| < 2^24 (normal numbers; the item      *)
(* handlers never produce anything else from the coordinates used here).   *)
(* Results are rounded to nearest, ties to even, as the FPU does.          *)
(***************************************************************************)
RECURSIVE Pow2(_)
Pow2(n) == IF n <= 0 THEN 1 ELSE 2 * Pow2(n - 1)

RECURSIVE BitLen(_)
\* The number of bits of n >= 0.
BitLen(n) ==
    IF n = 0
    THEN 0
    ELSE IF n >= 256 THEN 8 + BitLen(n \div 256) ELSE 1 + BitLen(n \div 2)

Abs(n) == IF n < 0 THEN -n ELSE n

Sgn(n) == IF n < 0 THEN -1 ELSE 1

F32Zero == [ m |-> 0, e |-> 0 ]

\* The float nearest to sign * n * 2^e, where n >= 0 and sticky tells that
\* the exact value lies strictly between n and n + 1 units.
F32Norm(sign, n, sticky, e) ==
    LET b == BitLen(n) IN
    IF n = 0
    THEN F32Zero
    ELSE IF b <= 24
    THEN [ m |-> sign * n * Pow2(24 - b), e |-> e - (24 - b) ]
    ELSE LET d == b - 24
             q == n \div Pow2(d)
             r == n % Pow2(d)
             half == Pow2(d - 1)
             up == r > half \/ (r = half /\ (sticky \/ q % 2 = 1))
             q1 == IF up THEN q + 1 ELSE q
         IN  IF q1 = Pow2(24)
             THEN [ m |-> sign * Pow2(23), e |-> e + d + 1 ]
             ELSE [ m |-> sign * q1, e |-> e + d ]

\* (float) of an int32_t
F32FromInt32(i) ==
    IF i = -2147483647 - 1
    THEN [ m |-> -Pow2(23), e |-> 8 ]
    ELSE F32Norm(Sgn(i), Abs(i), FALSE, 0)

\* x * 1e7f: 1e7 = 78125 * 2^7; the 41-bit product is formed in two halves.
F32MulE7(x) ==
    LET a == Abs(x.m) \div 4096
        b == Abs(x.m) % 4096
        lo == b * 78125
        hi == a * 78125 + lo \div 4096
    IN  F32Norm(Sgn(x.m), hi, lo % 4096 # 0, x.e + 12 + 7)

\* x * 100.0f: 100 = 25 * 2^2
F32Mul100(x) == F32Norm(Sgn(x.m), Abs(x.m) * 25, FALSE, x.e + 2)

RECURSIVE LongDiv(_, _, _, _)
\* n more bits of the quotient acc.(r / d), and the remainder left; the bits
\* are produced seven at a time (r < d <= 10^7, so r * 2^7 < 2^31).
LongDiv(r, d, n, acc) ==
    IF n = 0
    THEN << acc, r >>
    ELSE LET k == IF n < 7 THEN n ELSE 7
             p == Pow2(k)
         IN  LongDiv((r * p) % d, d, n - k, acc * p + (r * p) \div d)

\* x / d for an integer d, with n bits of the quotient behind the point.
F32DivInt(x, d, n) ==
    LET qr == LongDiv(Abs(x.m) % d, d, n, Abs(x.m) \div d)
    IN  F32Norm(Sgn(x.m), qr[1], qr[2] # 0, x.e - n)

\* The values an out-of-range conversion to int32_t yields (the behaviour is
\* undefined): the FPU saturates, or returns the "indefinite" integer.
Int32OutOfRange == { 2147483647, -2147483647 - 1 }

\* (int32_t) of a float: truncation toward zero.
F32ToInt32(x) ==
    IF x.m = 0
    THEN { 0 }
    ELSE IF x.e >= 0
    THEN IF BitLen(Abs(x.m)) + x.e <= 31
         THEN { x.m * Pow2(x.e) }
         ELSE IF x.m = -Pow2(23) /\ x.e = 8
         THEN { -2147483647 - 1 }
         ELSE Int32OutOfRange
    ELSE IF -x.e >= 31
    THEN { 0 }
    ELSE { Sgn(x.m) * (Abs(x.m) \div Pow2(-x.e)) }

(***************************************************************************)
(* Unit conversions of the item handlers                                   *)
(***************************************************************************)
\* (int32_t)(msg.x * 1e7f): the values the conversion can yield
DegreesToE7(deg) == F32ToInt32(F32MulE7(deg))

\* wp.alt = msg.z * 100.0f
MetersToCm(m) == F32ToInt32(F32Mul100(m))

\* wp.lat / 1e7f
E7ToDegrees(e7) == F32DivInt(F32FromInt32(e7), 10000000, 26)

\* wp.alt / 100.0f
CmToMeters(cm) == F32DivInt(F32FromInt32(cm), 100, 12)

(***************************************************************************)
(* The mission list of the navigation subsystem                            *)
(***************************************************************************)
Slots == 1 .. NAV_MAX_WAYPOINTS

EmptyList == [ i \in Slots |-> NoWp ]

\* resetWaypointList(): the list becomes empty.
resetWaypointList ==
    /\ waypointList' = EmptyList
    /\ waypointCount' = 0
    /\ waypointListValid' = FALSE

\* setWaypoint(wpNumber, wp): wpNumber is a uint8_t; a number within the
\* capacity stores the waypoint as the last one of the list.  The verdict of
\* the list validation is the navigation subsystem's.
setWaypoint(wpNumber, wp) ==
    LET n == wpNumber % 256 IN
    IF n \in Slots
    THEN /\ waypointList' =
                [ i \in Slots |->
                    IF i < n THEN waypointList[i] ELSE IF i = n THEN wp ELSE NoWp ]
         /\ waypointCount' = n
         /\ waypointListValid' \in BOOLEAN
    ELSE UNCHANGED << waypointList, waypointCount, waypointListValid >>

\* getWaypointCount()
getWaypointCount == waypointCount

\* getWaypoint(wpNumber)
getWaypoint(wpNumber) == waypointList[wpNumber]

\* isWaypointListValid(), read after the waypoint was stored
isWaypointListValid == waypointListValid'

listVars == << waypointList, waypointCount, waypointListValid >>

sessionVars == << incomingMissionWpCount, incomingMissionWpSequence >>

(***************************************************************************)
(* History of the peer's upload: a Count(n) announcement received while    *)
(* disarmed, followed by k valid items 0..k-1 in strict order and nothing  *)
(* else.                                                                   *)
(***************************************************************************)
UploadAfter(msg) ==
    IF msg.msgid = "MISSION_COUNT" /\ ForUs(msg) /\ ~armed
       /\ msg.count \in 1 .. NAV_MAX_WAYPOINTS
    THEN [ n |-> msg.count, k |-> 0, on |-> TRUE ]
    ELSE IF msg.msgid = "MISSION_ITEM" /\ ForUs(msg) /\ ~armed /\ ValidItem(msg)
            /\ upload.on /\ upload.k < upload.n /\ msg.seq = upload.k
    THEN [ upload EXCEPT !.k = @ + 1 ]
    ELSE NoUpload

NoAccepted ==
    [ on |-> FALSE, seq |-> 0, command |-> "NONE", x |-> F32Zero, y |-> F32Zero,
      z |-> F32Zero ]

\* The item last stored by an announced upload (its sequence number is
\* below the announced count) and answered with a request for the next one
\* or with ACCEPTED, until the list is changed otherwise; read after the
\* handler has written its reply.
AcceptedAfter(msg) ==
    IF msg.msgid = "MISSION_CLEAR_ALL" /\ ForUs(msg)
    THEN NoAccepted
    ELSE IF /\ msg.msgid = "MISSION_ITEM" /\ ForUs(msg) /\ ~armed
            /\ incomingMissionWpSequence' = incomingMissionWpSequence + 1
    THEN IF \/ msg.seq >= incomingMissionWpCount
            \/ txBuf'[1].msgid = "MISSION_ACK" /\ txBuf'[1].type = "MAV_MISSION_INVALID"
         THEN NoAccepted
         ELSE [ on |-> TRUE, seq |-> msg.seq, command |-> msg.command,
                x |-> msg.x, y |-> msg.y, z |-> msg.z ]
    ELSE accepted

\* What every inbound frame does besides its handler.
Received(msg) ==
    /\ mavRecvMsg' = Header(msg)
    /\ upload' = UploadAfter(msg)
    /\ UNCHANGED armed

\* A frame addressed to another system: the handler returns false.
NotForUs ==
    /\ handled' = FALSE
    /\ txBuf' = << >>
    /\ UNCHANGED << sessionVars, listVars >>

(***************************************************************************)
(* Mission transfer handlers                                               *)
(***************************************************************************)
\* The List-Clear handler refusing the request while armed.
Mutant_ClearRefusedWhenArmed(msg) ==
    /\ Received(msg)
    /\ IF ForUs(msg)
       THEN /\ handled' = TRUE
            /\ UNCHANGED sessionVars
            /\ IF armed
               THEN /\ txBuf' = << MissionAck(msg, "MAV_MISSION_ERROR") >>
                    /\ UNCHANGED listVars
               ELSE /\ resetWaypointList
                    /\ txBuf' = << MissionAck(msg, "MAV_MISSION_ACCEPTED") >>
       ELSE NotForUs

handleIncoming_MISSION_CLEAR_ALL(msg) ==
    /\ Received(msg)
    /\ IF ForUs(msg)
       THEN /\ resetWaypointList
            /\ txBuf' = << MissionAck(msg, "MAV_MISSION_ACCEPTED") >>
            /\ handled' = TRUE
            /\ UNCHANGED sessionVars
       ELSE NotForUs

\* The capacity check accepting one waypoint too many.
Mutant_CountFitsOffByOne(msg) == msg.count <= NAV_MAX_WAYPOINTS + 1

\* msg.count <= NAV_MAX_WAYPOINTS: the announced list fits.
CountFits(msg) == msg.count <= NAV_MAX_WAYPOINTS

\* The announcement keeping the cursor of the upload it supersedes.
Mutant_OpenUploadKeepsSequence(msg) ==
    /\ incomingMissionWpCount' = msg.count
    /\ UNCHANGED incomingMissionWpSequence
    /\ txBuf' = << MissionRequest(msg, incomingMissionWpSequence) >>

\* The announcement opens the upload: the cursor is set and item 0 requested.
OpenUpload(msg) ==
    /\ incomingMissionWpCount' = msg.count
    /\ incomingMissionWpSequence' = 0
    /\ txBuf' = << MissionRequest(msg, 0) >>

\* The rejection of an oversized announcement reported as not handled.
Mutant_CountRejectionUnhandled(msg) ==
    /\ Received(msg)
    /\ IF ForUs(msg)
       THEN /\ handled' = CountFits(msg)
            /\ UNCHANGED listVars
            /\ IF CountFits(msg)
               THEN OpenUpload(msg)
               ELSE IF armed
               THEN /\ txBuf' = << MissionAck(msg, "MAV_MISSION_ERROR") >>
                    /\ UNCHANGED sessionVars
               ELSE /\ txBuf' = << MissionAck(msg, "MAV_MISSION_NO_SPACE") >>
                    /\ UNCHANGED sessionVars
       ELSE NotForUs

handleIncoming_MISSION_COUNT(msg) ==
    /\ Received(msg)
    /\ IF ForUs(msg)
       THEN /\ handled' = TRUE
            /\ UNCHANGED listVars
            /\ IF CountFits(msg)
               THEN OpenUpload(msg)
               ELSE IF armed
               THEN /\ txBuf' = << MissionAck(msg, "MAV_MISSION_ERROR") >>
                    /\ UNCHANGED sessionVars
               ELSE /\ txBuf' = << MissionAck(msg, "MAV_MISSION_NO_SPACE") >>
                    /\ UNCHANGED sessionVars
       ELSE NotForUs

\* A refusal that also drops the upload in progress.
Mutant_RejectItemDropsUpload(msg, type) ==
    /\ txBuf' = << MissionAck(msg, type) >>
    /\ incomingMissionWpCount' = 0
    /\ incomingMissionWpSequence' = 0
    /\ UNCHANGED listVars

\* A refusal that also empties the stored list.
Mutant_RejectItemClearsList(msg, type) ==
    /\ txBuf' = << MissionAck(msg, type) >>
    /\ resetWaypointList
    /\ UNCHANGED sessionVars

\* An item answered with a negative acknowledgement.
RejectItem(msg, type) ==
    /\ txBuf' = << MissionAck(msg, type) >>
    /\ UNCHANGED << sessionVars, listVars >>

\* The end-of-list flag set one item late.
Mutant_ItemFlagLate(seq) ==
    IF seq > incomingMissionWpCount THEN "NAV_WP_FLAG_LAST" ELSE "NONE"

\* wp.flag of the waypoint stored as number seq
ItemFlag(seq) ==
    IF seq >= incomingMissionWpCount THEN "NAV_WP_FLAG_LAST" ELSE "NONE"

\* The item carries the expected sequence number: it is stored, and the
\* next one is requested or the list is validated.
StoreItem(msg) ==
    LET seq == incomingMissionWpSequence + 1 IN
        /\ incomingMissionWpSequence' = seq
        /\ UNCHANGED incomingMissionWpCount
        /\ \E lat \in DegreesToE7(msg.x), lon \in DegreesToE7(msg.y),
              alt \in MetersToCm(msg.z) :
              setWaypoint(seq,
                  [ action |-> IF msg.command = "MAV_CMD_NAV_RETURN_TO_LAUNCH"
                               THEN "NAV_WP_ACTION_RTH"
                               ELSE "NAV_WP_ACTION_WAYPOINT",
                    lat |-> lat,
                    lon |-> lon,
                    alt |-> alt,
                    flag |-> ItemFlag(seq) ])
        /\ IF seq >= incomingMissionWpCount
           THEN IF isWaypointListValid
                THEN txBuf' = << MissionAck(msg, "MAV_MISSION_ACCEPTED") >>
                ELSE txBuf' = << MissionAck(msg, "MAV_MISSION_INVALID") >>
           ELSE txBuf' = << MissionRequest(msg, seq) >>

\* A wrong sequence number aborting the upload.
Mutant_WrongSequenceResets(msg) ==
    /\ txBuf' = << MissionAck(msg, "MAV_MISSION_INVALID_SEQUENCE") >>
    /\ incomingMissionWpCount' = 0
    /\ incomingMissionWpSequence' = 0
    /\ UNCHANGED listVars

\* Wrong sequence number received
WrongSequence(msg) == RejectItem(msg, "MAV_MISSION_INVALID_SEQUENCE")

\* The frame check asking for the mission frame of every return-to-launch.
Mutant_FrameStrictForRTL(msg) ==
    IF msg.command = "MAV_CMD_NAV_RETURN_TO_LAUNCH"
    THEN msg.frame # "MAV_FRAME_MISSION"
    ELSE msg.frame # "MAV_FRAME_GLOBAL_RELATIVE_ALT"

\* The frame of an item with a supported command is refused.
FrameUnsupported(msg) ==
    /\ msg.frame # "MAV_FRAME_GLOBAL_RELATIVE_ALT"
    /\ ~ ( /\ msg.frame = "MAV_FRAME_MISSION"
           /\ msg.command = "MAV_CMD_NAV_RETURN_TO_LAUNCH" )

\* The item handler checking the sequence number before anything else.
Mutant_ItemSequenceFirst(msg) ==
    /\ Received(msg)
    /\ IF ForUs(msg)
       THEN /\ handled' = TRUE
            /\ IF msg.seq # incomingMissionWpSequence
               THEN WrongSequence(msg)
               ELSE IF armed
               THEN RejectItem(msg, "MAV_MISSION_ERROR")
               ELSE IF \/ msg.autocontinue = 0
                       \/ /\ msg.command # "MAV_CMD_NAV_WAYPOINT"
                          /\ msg.command # "MAV_CMD_NAV_RETURN_TO_LAUNCH"
               THEN RejectItem(msg, "MAV_MISSION_UNSUPPORTED")
               ELSE IF FrameUnsupported(msg)
               THEN RejectItem(msg, "MAV_MISSION_UNSUPPORTED_FRAME")
               ELSE StoreItem(msg)
       ELSE NotForUs

handleIncoming_MISSION_ITEM(msg) ==
    /\ Received(msg)
    /\ IF ForUs(msg)
       THEN /\ handled' = TRUE
            /\ IF armed
               THEN RejectItem(msg, "MAV_MISSION_ERROR")
               ELSE IF \/ msg.autocontinue = 0
                       \/ /\ msg.command # "MAV_CMD_NAV_WAYPOINT"
                          /\ msg.command # "MAV_CMD_NAV_RETURN_TO_LAUNCH"
               THEN RejectItem(msg, "MAV_MISSION_UNSUPPORTED")
               ELSE IF FrameUnsupported(msg)
               THEN RejectItem(msg, "MAV_MISSION_UNSUPPORTED_FRAME")
               ELSE IF msg.seq = incomingMissionWpSequence
               THEN StoreItem(msg)
               ELSE WrongSequence(msg)
       ELSE NotForUs

handleIncoming_MISSION_REQUEST_LIST(msg) ==
    /\ Received(msg)
    /\ IF ForUs(msg)
       THEN /\ txBuf' = << MissionCount(msg, getWaypointCount) >>
            /\ handled' = TRUE
            /\ UNCHANGED << sessionVars, listVars >>
       ELSE NotForUs

\* The last waypoint of the list refused.
Mutant_RequestInListOffByOne(msg) == msg.seq + 1 < getWaypointCount

\* msg.seq < wpCount
RequestInList(msg) == msg.seq < getWaypointCount

handleIncoming_MISSION_REQUEST(msg) ==
    /\ Received(msg)
    /\ IF ForUs(msg)
       THEN /\ handled' = TRUE
            /\ UNCHANGED << sessionVars, listVars >>
            /\ IF RequestInList(msg)
               THEN LET wp == getWaypoint(msg.seq + 1)
                        rth == wp.action = "NAV_WP_ACTION_RTH"
                    IN  txBuf' =
                          << MissionItem(msg, msg.seq,
                               IF rth THEN "MAV_FRAME_MISSION"
                                      ELSE "MAV_FRAME_GLOBAL_RELATIVE_ALT",
                               IF rth THEN "MAV_CMD_NAV_RETURN_TO_LAUNCH"
                                      ELSE "MAV_CMD_NAV_WAYPOINT",
                               E7ToDegrees(wp.lat), E7ToDegrees(wp.lon),
                               CmToMeters(wp.alt)) >>
               ELSE txBuf' = << MissionAck(msg, "MAV_MISSION_INVALID_SEQUENCE") >>
       ELSE NotForUs

(***************************************************************************)
(* The arming flag is the flight controller's.                             *)
(***************************************************************************)
Arm ==
    /\ ~armed
    /\ armed' = TRUE
    /\ upload' = NoUpload
    /\ UNCHANGED << sessionVars, listVars, mavRecvMsg, txBuf, handled, schedVars,
                    linkVars, accepted, envVars >>

Disarm ==
    /\ armed
    /\ armed' = FALSE
    /\ upload' = NoUpload
    /\ UNCHANGED << sessionVars, listVars, mavRecvMsg, txBuf, handled, schedVars,
                    linkVars, accepted, envVars >>

\* The switch on the message id of a decoded mission frame.
Dispatch(msg) ==
    CASE msg.msgid = "MISSION_CLEAR_ALL"    -> handleIncoming_MISSION_CLEAR_ALL(msg)
      [] msg.msgid = "MISSION_COUNT"        -> handleIncoming_MISSION_COUNT(msg)
      [] msg.msgid = "MISSION_ITEM"         -> handleIncoming_MISSION_ITEM(msg)
      [] msg.msgid = "MISSION_REQUEST_LIST" -> handleIncoming_MISSION_REQUEST_LIST(msg)
      [] msg.msgid = "MISSION_REQUEST"      -> handleIncoming_MISSION_REQUEST(msg)

(***************************************************************************)
(* Rate scheduler                                                          *)
(***************************************************************************)
Min(a, b) == IF a < b THEN a ELSE b

\* The return value of mavlinkStreamTrigger(streamNum).
mavlinkStreamTrigger(streamNum) ==
    mavRates[streamNum] # 0 /\ mavTicks[streamNum] = 0

\* The reload computed from the rate as configured, without the clamp.
Mutant_TicksReloadUnclamped(streamNum) ==
    LET rate == mavRates[streamNum] IN
    IF rate = 0
    THEN mavTicks[streamNum]
    ELSE IF mavTicks[streamNum] = 0
    THEN TELEMETRY_MAVLINK_MAXRATE \div rate
    ELSE mavTicks[streamNum] - 1

\* mavTicks[streamNum] after mavlinkStreamTrigger(streamNum).
mavTicksAfterTrigger(streamNum) ==
    LET rate == mavRates[streamNum] IN
    IF rate = 0
    THEN mavTicks[streamNum]
    ELSE IF mavTicks[streamNum] = 0
    THEN TELEMETRY_MAVLINK_MAXRATE \div Min(rate, TELEMETRY_MAVLINK_MAXRATE)
    ELSE mavTicks[streamNum] - 1

(***************************************************************************)
(* Senders of the scheduled messages.  Of each message the fields that     *)
(* depend on the battery and on the status text are kept.                  *)
(***************************************************************************)
UINT16_MAX == 65535

MAVLINK_MSG_ID_BATTERY_STATUS_MAX_CELLS == 10

\* Conversion to uint16_t.
ToUint16(n) == n % 65536

\* Conversion to a signed integer of w < 32 bits (two's complement).
ToInt(n, w) ==
    LET m == n % Pow2(w) IN IF m >= Pow2(w - 1) THEN m - Pow2(w) ELSE m

\* The battery subsystem: feature(FEATURE_VBAT), isAmperageConfigured() and
\* the readings (getBatteryVoltage() in 0.01 V, getBatteryCellCount(),
\* getBatteryAverageCellVoltage(), getAmperage(), getMAhDrawn(),
\* getMWhDrawn(), calculateBatteryPercentage()).
BatteryStates ==
    [ vbat : BOOLEAN, amperage : BOOLEAN, voltage : { 1260 }, cellCount : { 0, 3 },
      cellVoltage : { 420 }, current : { 1500 }, mAhDrawn : { 350 },
      mWhDrawn : { 4400 }, percentage : { 87 } ]

MonitoredBattery ==
    [ vbat |-> TRUE, amperage |-> TRUE, voltage |-> 1260, cellCount |-> 3,
      cellVoltage |-> 420, current |-> 1500, mAhDrawn |-> 350, mWhDrawn |-> 4400,
      percentage |-> 87 ]

\* mavlinkSendSystemStatus(): the SYS_STATUS message.
mavlinkSendSystemStatus ==
    << [ msgid |-> "SYS_STATUS",
         voltage_battery |->
            IF battery.vbat THEN ToUint16(battery.voltage * 10) ELSE 0,
         current_battery |->
            IF battery.amperage THEN ToInt(battery.current, 16) ELSE -1,
         battery_remaining |->
            IF battery.vbat THEN ToInt(battery.percentage, 8) ELSE 100 ] >>

\* uint16_t batteryVoltages[] as the battery status message carries it.
batteryVoltages ==
    [ cell \in 1 .. MAVLINK_MSG_ID_BATTERY_STATUS_MAX_CELLS |->
        IF battery.vbat
        THEN IF battery.cellCount > 0
             THEN IF cell <= battery.cellCount
                  THEN ToUint16(battery.cellVoltage * 10)
                  ELSE UINT16_MAX
             ELSE IF cell = 1 THEN ToUint16(battery.voltage * 10) ELSE UINT16_MAX
        ELSE IF cell = 1 THEN 0 ELSE UINT16_MAX ]

\* The BATTERY_STATUS message of mavlinkSendBatteryTemperatureStatusText();
\* the charge and the energy consumed are int32_t, and the readings here
\* are far from its limits.
BatteryStatus ==
    [ msgid |-> "BATTERY_STATUS",
      voltages |-> batteryVoltages,
      current_battery |-> IF battery.amperage THEN ToInt(battery.current, 16) ELSE -1,
      current_consumed |-> IF battery.amperage THEN battery.mAhDrawn ELSE -1,
      energy_consumed |->
         IF battery.amperage THEN battery.mWhDrawn * 36 ELSE -1,
      battery_remaining |->
         IF battery.vbat THEN ToInt(battery.percentage, 8) ELSE -1 ]

\* Nothing to report: no failsafe, no navigation, no flight mode shown, no
\* flag that disables arming.
QuietFlight ==
    [ failsafeMode |-> FALSE, failsafePhase |-> "FAILSAFE_IDLE", rxData |-> FALSE,
      navMode |-> FALSE, navState |-> "MW_NAV_STATE_NONE", autolaunch |-> FALSE,
      althold |-> FALSE, autotrim |-> FALSE, autotune |-> FALSE, headfree |-> FALSE,
      armingDisabled |-> FALSE, invalidSetting |-> FALSE,
      disabledReason |-> NULL ]

\* States of the flight controller the status text is selected in.
FlightStates ==
    { QuietFlight,
      [ QuietFlight EXCEPT !.failsafeMode = TRUE ],
      [ QuietFlight EXCEPT !.failsafeMode = TRUE, !.failsafePhase = "FAILSAFE_LANDING",
                           !.rxData = TRUE ],
      [ QuietFlight EXCEPT !.failsafeMode = TRUE,
                           !.failsafePhase = "FAILSAFE_RETURN_TO_HOME",
                           !.navState = "MW_NAV_STATE_RTH_ENROUTE" ],
      [ QuietFlight EXCEPT !.navMode = TRUE, !.navState = "MW_NAV_STATE_WP_ENROUTE" ],
      [ QuietFlight EXCEPT !.navMode = TRUE ],
      [ QuietFlight EXCEPT !.autolaunch = TRUE ],
      [ QuietFlight EXCEPT !.headfree = TRUE ],
      [ QuietFlight EXCEPT !.althold = TRUE, !.headfree = TRUE ],
      [ QuietFlight EXCEPT !.autotrim = TRUE, !.autotune = TRUE, !.headfree = TRUE ],
      [ QuietFlight EXCEPT !.althold = TRUE, !.autotrim = TRUE, !.autotune = TRUE,
                           !.headfree = TRUE ],
      [ QuietFlight EXCEPT !.armingDisabled = TRUE,
                           !.disabledReason = "NO RC LINK" ],
      [ QuietFlight EXCEPT !.armingDisabled = TRUE, !.invalidSetting = TRUE,
                           !.disabledReason = "INVALID SETTING" ] }

\* mavlinkFailsafePhaseMessage()
mavlinkFailsafePhaseMessage ==
    CASE flight.failsafePhase = "FAILSAFE_RETURN_TO_HOME" -> "(RTH)"
      [] flight.failsafePhase = "FAILSAFE_LANDING" -> "(EMERGENCY LANDING)"
      [] OTHER -> NULL

\* mavlinkFailsafeInfoMessage()
mavlinkFailsafeInfoMessage ==
    IF flight.rxData THEN "!MOVE STICKS TO EXIT FS!" ELSE "RC_RX_LINK_LOST_MSG"

\* mavlinkNavigationStateMessage()
mavlinkNavigationStateMessage ==
    CASE flight.navState = "MW_NAV_STATE_RTH_ENROUTE" -> "EN ROUTE TO HOME"
      [] flight.navState = "MW_NAV_STATE_WP_ENROUTE" -> "TO WP"
      [] OTHER -> NULL

\* The message, if there is one.
Some(message) == IF message = NULL THEN << >> ELSE << message >>

\* const char *messages[5] and messageCount of an armed aircraft, when the
\* message is picked.
messages ==
    IF flight.failsafeMode
    THEN Some(mavlinkFailsafePhaseMessage)
            \o Some(mavlinkFailsafeInfoMessage)
            \o Some(mavlinkNavigationStateMessage)
    ELSE IF flight.navMode
    THEN Some(mavlinkNavigationStateMessage)
    ELSE IF flight.autolaunch
    THEN << "AUTOLAUNCH" >>
    ELSE ( IF flight.althold THEN << "(ALTITUDE HOLD)" >> ELSE << >> )
            \o ( IF flight.autotrim THEN << "(AUTOTRIM)" >> ELSE << >> )
            \o ( IF flight.autotune THEN << "(AUTOTUNE)" >> ELSE << >> )
            \o ( IF flight.headfree THEN << "(HEADFREE)" >> ELSE << >> )

\* The index moving on every other second.
Mutant_ChoiceEveryOtherSecond(now, num_choices) == ( now.k \div 2 ) % num_choices

\* #define STATUS_TEXT_ALTERNATING_CHOICES(ms, num_choices)
\*     ((millis() / ms) % num_choices)
\* with ms = 1000 at every use: millis() / 1000 is the k of the clock.
STATUS_TEXT_ALTERNATING_CHOICES(now, num_choices) == now.k % num_choices

\* getMAVLinkSystemMsg(buff) called when millis() is now: the severity
\* returned and the message copied to buff, NULL if buff is left alone.
getMAVLinkSystemMsg(now) ==
    IF armed
    THEN IF Len(messages) > 0
         THEN LET message ==
                    messages[STATUS_TEXT_ALTERNATING_CHOICES(now, Len(messages)) + 1]
              IN  [ severity |->
                        IF flight.failsafeMode /\ message = mavlinkFailsafeInfoMessage
                        THEN "MAV_SEVERITY_CRITICAL"
                        ELSE "MAV_SEVERITY_INFO",
                    message |-> message ]
         ELSE [ severity |-> "MAV_SEVERITY_INFO", message |-> NULL ]
    ELSE IF flight.armingDisabled
    THEN IF flight.invalidSetting
         THEN IF STATUS_TEXT_ALTERNATING_CHOICES(now, 2) = 0
              THEN [ severity |-> "MAV_SEVERITY_INFO", message |-> "SETTING NAME" ]
              ELSE [ severity |-> "MAV_SEVERITY_WARNING",
                     message |-> "INVALID SETTING" ]
         ELSE IF STATUS_TEXT_ALTERNATING_CHOICES(now, 2) = 0
              THEN [ severity |-> "MAV_SEVERITY_WARNING", message |-> "UNABLE TO ARM" ]
              ELSE [ severity |-> "MAV_SEVERITY_INFO",
                     message |-> flight.disabledReason ]
    ELSE [ severity |-> "MAV_SEVERITY_INFO", message |-> NULL ]

\* #define STATUS_TEXT_LENGTH 50: the size of buff.
STATUS_TEXT_LENGTH == 50

\* The index at which getMAVLinkSystemMsg(buff) writes the terminating zero:
\* int messageLength = strlen(message); buff[messageLength] = '\0'; nothing
\* is written (-1) when there is no message.
TerminatorIndex(message) == IF message = NULL THEN -1 ELSE Len(message)

\* mavlinkSendBatteryTemperatureStatusText() called when millis() is now.
mavlinkSendBatteryTemperatureStatusText(now) ==
    << BatteryStatus, [ msgid |-> "SCALED_PRESSURE" ] >>
        \o ( IF getMAVLinkSystemMsg(now).message # NULL
             THEN << [ msgid |-> "STATUSTEXT",
                       severity |-> getMAVLinkSystemMsg(now).severity,
                       text |-> getMAVLinkSystemMsg(now).message ] >>
             ELSE << >> )

\* 2^32 ms = 4294967 s + 296 ms.
MillisWrapK == 4294967

MillisWrapR == 296

\* millis() dt milliseconds (less than a second and a half) after now, the
\* counter wrapping at 2^32.
millisAfter(now, dt) ==
    LET r == ( now.r + dt ) % 1000
        k == now.k + ( now.r + dt ) \div 1000
    IN  IF k > MillisWrapK \/ ( k = MillisWrapK /\ r >= MillisWrapR )
        THEN LET ms == ( k - MillisWrapK ) * 1000 + r - MillisWrapR
             IN  [ k |-> ms \div 1000, r |-> ms % 1000 ]
        ELSE [ k |-> k, r |-> r ]

\* The messages the dispatcher sends for a stream that fired (the position
\* messages when a GPS is fitted).
StreamMessages(streamNum) ==
    CASE streamNum = "EXTENDED_STATUS" -> mavlinkSendSystemStatus
      [] streamNum = "RC_CHANNELS"     -> << [ msgid |-> "RC_CHANNELS_RAW" ] >>
      [] streamNum = "POSITION"        ->
            << [ msgid |-> "GPS_RAW_INT" ], [ msgid |-> "GLOBAL_POSITION_INT" ],
               [ msgid |-> "GPS_GLOBAL_ORIGIN" ] >>
      [] streamNum = "EXTRA1"          -> << [ msgid |-> "ATTITUDE" ] >>
      [] streamNum = "EXTRA2"          ->
            << [ msgid |-> "VFR_HUD" ], [ msgid |-> "HEARTBEAT" ] >>
      [] streamNum = "EXTRA3"          -> mavlinkSendBatteryTemperatureStatusText(millis)

RECURSIVE BatchFrom(_)
\* The messages of the streams i..6 that fire, in the order they are polled.
BatchFrom(i) ==
    IF i > Len(Streams)
    THEN << >>
    ELSE ( IF mavlinkStreamTrigger(Streams[i])
           THEN StreamMessages(Streams[i])
           ELSE << >> ) \o BatchFrom(i + 1)

\* One scheduled batch: every stream is polled once.
processMAVLinkTelemetry ==
    /\ mavTicks' = [ s \in StreamSet |-> mavTicksAfterTrigger(s) ]
    /\ batchBuf' = BatchFrom(1)
    /\ cycle' = cycle + 1
    /\ trigCount' =
         [ s \in StreamSet |->
             trigCount[s] + IF mavlinkStreamTrigger(s) THEN 1 ELSE 0 ]
    /\ UNCHANGED << mavRates, pollPos >>

\* One poll of the batch, the call mavlinkStreamTrigger(streamNum) and the
\* sends that follow a trigger: the batch polls the streams in order.
pollStream ==
    LET streamNum == Streams[pollPos + 1] IN
    /\ mavTicks' = [ mavTicks EXCEPT ![streamNum] = mavTicksAfterTrigger(streamNum) ]
    /\ trigCount' =
         [ trigCount EXCEPT
             ![streamNum] = @ + IF mavlinkStreamTrigger(streamNum) THEN 1 ELSE 0 ]
    /\ batchBuf' =
         ( IF pollPos = 0 THEN << >> ELSE batchBuf )
            \o ( IF mavlinkStreamTrigger(streamNum)
                 THEN StreamMessages(streamNum)
                 ELSE << >> )
    /\ pollPos' = ( pollPos + 1 ) % Len(Streams)
    /\ cycle' = cycle + IF pollPos + 1 = Len(Streams) THEN 1 ELSE 0
    /\ UNCHANGED mavRates

(***************************************************************************)
(* Inbound decoder and orchestrator                                        *)
(***************************************************************************)
\* #define TELEMETRY_MAVLINK_DELAY ((1000 * 1000) / TELEMETRY_MAVLINK_MAXRATE)
TELEMETRY_MAVLINK_DELAY == (1000 * 1000) \div TELEMETRY_MAVLINK_MAXRATE

\* A heartbeat of the peer.
HeartbeatMsgs == { [ msgid |-> "HEARTBEAT", target_system |-> 0 ] }

\* A frame whose message id has no case in the switch.
OtherMsgs == { [ msgid |-> "PARAM_REQUEST_LIST", target_system |-> 0 ] }

\* Bytes that complete no frame (the parser never reports MAVLINK_FRAMING_OK).
StrayBytes == { [ msgid |-> "NONE", target_system |-> 0 ] }

\* What the serial port receives on the link.
RxItems ==
    HeartbeatMsgs \cup OtherMsgs \cup StrayBytes \cup ClearMsgs \cup RequestListMsgs

MissionIds ==
    { "MISSION_CLEAR_ALL", "MISSION_COUNT", "MISSION_ITEM", "MISSION_REQUEST_LIST",
      "MISSION_REQUEST" }

\* The serial driver buffers what arrives.
serialReceive(item) ==
    /\ Len(rxQueue) < MaxRxFrames
    /\ rxQueue' = Append(rxQueue, item)
    /\ UNCHANGED << incomingRequestServed, lastMavlinkMessage, currentTimeUs,
                    batchRun, framesDecoded, ticks, mavlinkTelemetryEnabled,
                    mavlinkPort, expiryUs >>
    /\ UNCHANGED << missionVars, schedVars, accepted, envVars >>

\* The heartbeat's case returning as the others do.
Mutant_HeartbeatLeavesLoop(item) == item.msgid # "NONE"

\* The frame leaves the read loop: every case of the switch but the
\* heartbeat's returns.
LeavesLoop(item) == item.msgid \notin { "NONE", "HEARTBEAT" }

RECURSIVE BytesRead(_)
\* How much of the buffered input one call of the decoder reads: up to the
\* first frame that returns, or all of it.
BytesRead(q) ==
    IF q = << >>
    THEN 0
    ELSE IF LeavesLoop(Head(q)) THEN 1 ELSE 1 + BytesRead(Tail(q))

\* The positions, among the first n of the buffer, that hold a complete frame.
FramesRead(q, n) == { i \in 1 .. n : q[i].msgid # "NONE" }

\* processMAVLinkIncomingTelemetry(): handled' is its return value.
processMAVLinkIncomingTelemetry ==
    LET n == BytesRead(rxQueue)
        frames == FramesRead(rxQueue, n)
        last == IF frames = { }
                THEN mavRecvMsg
                ELSE rxQueue[CHOOSE i \in frames : \A j \in frames : j <= i]
    IN  /\ rxQueue' = SubSeq(rxQueue, n + 1, Len(rxQueue))
        /\ framesDecoded' = Cardinality(frames)
        /\ IF frames # { } /\ last.msgid \in MissionIds
           THEN Dispatch(last)
           ELSE /\ mavRecvMsg' = Header(last)
                /\ handled' = FALSE
                /\ txBuf' = << >>
                /\ UNCHANGED << sessionVars, listVars, armed, upload >>

\* The batch run without consulting the flag.
Mutant_BatchIgnoresServed(served) == TRUE

\* if (!incomingRequestServed)
BatchAllowed(served) == ~served

\* The orchestrator running on a link that is disabled.
Mutant_LinkUpAlways == TRUE

\* Neither of the two early returns is taken.
LinkUp == mavlinkTelemetryEnabled /\ mavlinkPort # NULL

\* The flag as it would be if it only told of the frame of this call.
Mutant_ServedThisCycleOnly == handled'

\* incomingRequestServed after the decoder has run: the flag is static, a
\* frame handled in this call sets it.
ServedNow == incomingRequestServed \/ handled'

\* The time stamp renewed only when the batch has run.
Mutant_RestampAfterBatchOnly(now) ==
    lastMavlinkMessage' = IF ServedNow THEN lastMavlinkMessage ELSE now

\* lastMavlinkMessage = currentTimeUs
Restamp(now) == lastMavlinkMessage' = now

\* handleMAVLinkTelemetry(currentTimeUs)
handleMAVLinkTelemetry(now) ==
    /\ ticks < MaxTicks
    /\ ticks' = ticks + 1
    /\ currentTimeUs' = now
    /\ UNCHANGED << accepted, envVars, mavlinkTelemetryEnabled, mavlinkPort >>
    /\ IF LinkUp
       THEN /\ processMAVLinkIncomingTelemetry
            /\ IF now - lastMavlinkMessage >= TELEMETRY_MAVLINK_DELAY
               THEN /\ IF BatchAllowed(ServedNow)
                       THEN processMAVLinkTelemetry /\ batchRun' = TRUE
                       ELSE UNCHANGED schedVars /\ batchRun' = FALSE
                    /\ Restamp(now)
                    /\ incomingRequestServed' = FALSE
                    /\ expiryUs' = now
               ELSE /\ incomingRequestServed' = ServedNow
                    /\ batchRun' = FALSE
                    /\ UNCHANGED << schedVars, lastMavlinkMessage, expiryUs >>
       ELSE /\ txBuf' = << >>
            /\ batchRun' = FALSE
            /\ framesDecoded' = 0
            /\ UNCHANGED << sessionVars, listVars, armed, mavRecvMsg, handled, upload,
                            schedVars, rxQueue, incomingRequestServed,
                            lastMavlinkMessage, expiryUs >>

\* The upload session dropped when the link goes down.
Mutant_FreeAbortsUpload ==
    /\ mavlinkPort' = NULL
    /\ mavlinkTelemetryEnabled' = FALSE
    /\ rxQueue' \in { rxQueue, << >> }
    /\ incomingMissionWpCount' = 0
    /\ incomingMissionWpSequence' = 0
    /\ UNCHANGED << mavRates, mavTicks >>

\* freeMAVLinkTelemetryPort(): what the closed port had buffered is the
\* serial driver's to keep or to drop.
freeMAVLinkTelemetryPort ==
    /\ mavlinkPort' = NULL
    /\ mavlinkTelemetryEnabled' = FALSE
    /\ rxQueue' \in { rxQueue, << >> }
    /\ UNCHANGED << sessionVars, mavRates, mavTicks >>

\* configureMAVLinkTelemetryPort(): opened tells whether a port is
\* configured for MAVLink and openSerialPort returned it.
configureMAVLinkTelemetryPort(opened) ==
    IF opened
    THEN mavlinkPort' = "OPEN" /\ mavlinkTelemetryEnabled' = TRUE
    ELSE UNCHANGED << mavlinkPort, mavlinkTelemetryEnabled >>

\* configureMAVLinkStreamRates()
configureMAVLinkStreamRates(config) == mavRates' = config

\* checkMAVLinkTelemetryState(): newTelemetryEnabledValue is the verdict of
\* telemetryDetermineEnabledState().
checkMAVLinkTelemetryState(newTelemetryEnabledValue, opened, config) ==
    /\ newTelemetryEnabledValue # mavlinkTelemetryEnabled
    /\ IF newTelemetryEnabledValue
       THEN /\ configureMAVLinkTelemetryPort(opened)
            /\ configureMAVLinkStreamRates(config)
            /\ UNCHANGED << sessionVars, mavTicks, rxQueue >>
       ELSE freeMAVLinkTelemetryPort
    /\ UNCHANGED << listVars, armed, mavRecvMsg, txBuf, handled, upload, cycle,
                    trigCount, batchBuf, pollPos, incomingRequestServed,
                    lastMavlinkMessage,
                    currentTimeUs, batchRun, framesDecoded, ticks, expiryUs,
                    accepted, envVars >>

\* The periods at which the task scheduler calls the orchestrator: half the
\* minimum interval between two batches, or all of it.
CycleSteps == { TELEMETRY_MAVLINK_DELAY \div 2, TELEMETRY_MAVLINK_DELAY }

(***************************************************************************)
(* Specifications                                                          *)
(***************************************************************************)
InitMission ==
    /\ incomingMissionWpCount = 0
    /\ incomingMissionWpSequence = 0
    /\ waypointList = EmptyList
    /\ waypointCount = 0
    /\ waypointListValid = FALSE
    /\ mavRecvMsg = NoMsg
    /\ txBuf = << >>
    /\ handled = FALSE
    /\ upload = NoUpload

InitSched ==
    /\ mavTicks = [ s \in StreamSet |-> 0 ]
    /\ cycle = 0
    /\ trigCount = [ s \in StreamSet |-> 0 ]
    /\ batchBuf = << >>
    /\ pollPos = 0

InitLink ==
    /\ rxQueue = << >>
    /\ incomingRequestServed = FALSE
    /\ lastMavlinkMessage = 0
    /\ currentTimeUs = 0
    /\ batchRun = FALSE
    /\ framesDecoded = 0
    /\ ticks = 0
    /\ expiryUs = 0
    /\ accepted = NoAccepted

\* The link has been activated: the port is open.
InitPort ==
    /\ mavlinkTelemetryEnabled = TRUE
    /\ mavlinkPort = "OPEN"

\* A disarmed vehicle that has just booted, nothing to report, the battery
\* monitored.
InitEnv ==
    /\ armed = FALSE
    /\ battery = MonitoredBattery
    /\ flight = QuietFlight
    /\ millis = [ k |-> 0, r |-> 0 ]
    /\ textLog = << >>

\* The mission transfer: frames arrive in any order, the vehicle arms and
\* disarms at any time.
Init ==
    /\ InitMission
    /\ InitSched
    /\ InitLink
    /\ InitPort
    /\ InitEnv
    /\ mavRates = DefaultRates

\* A frame is handled on its own: the scheduler and the link stay as they are.
HandlerOnly == UNCHANGED << schedVars, linkVars, accepted, envVars >>

Next ==
    \/ \E msg \in ClearMsgs : handleIncoming_MISSION_CLEAR_ALL(msg) /\ HandlerOnly
    \/ \E msg \in CountMsgs : handleIncoming_MISSION_COUNT(msg) /\ HandlerOnly
    \/ \E msg \in ItemMsgs : handleIncoming_MISSION_ITEM(msg) /\ HandlerOnly
    \/ \E msg \in RequestListMsgs :
            handleIncoming_MISSION_REQUEST_LIST(msg) /\ HandlerOnly
    \/ \E msg \in RequestMsgs : handleIncoming_MISSION_REQUEST(msg) /\ HandlerOnly
    \/ Arm
    \/ Disarm

Spec == Init /\ [][Next]_vars

\* The rate scheduler: the link is activated with some configuration of the
\* rates and the scheduled batch runs once per cycle.
InitTrigger ==
    /\ InitMission
    /\ InitSched
    /\ InitLink
    /\ InitPort
    /\ InitEnv
    /\ mavRates \in RateConfigs

NextTrigger ==
    /\ cycle < MaxSeconds * TELEMETRY_MAVLINK_MAXRATE
    /\ processMAVLinkTelemetry
    /\ UNCHANGED << missionVars, linkVars, accepted, envVars >>

SpecTrigger == InitTrigger /\ [][NextTrigger]_vars

\* The scheduled messages of a vehicle with any set of battery features.
InitBattery ==
    /\ InitMission
    /\ InitSched
    /\ InitLink
    /\ InitPort
    /\ armed = FALSE
    /\ battery \in BatteryStates
    /\ flight = QuietFlight
    /\ millis = [ k |-> 0, r |-> 0 ]
    /\ textLog = << >>
    /\ mavRates = DefaultRates

SpecBattery == InitBattery /\ [][NextTrigger]_vars

\* The clock when the first status text is asked for: at boot, or three
\* seconds before the millisecond counter wraps.
ClockStarts == { [ k |-> 0, r |-> 0 ], [ k |-> MillisWrapK - 2, r |-> 0 ] }

\* The time between two calls of the status text sender.
TextSteps == { 500, 1000 }

\* The status text sender called at the time now.
sendStatusText(now) ==
    /\ Len(textLog) < MaxTextCalls
    /\ millis' = now
    /\ batchBuf' = mavlinkSendBatteryTemperatureStatusText(now)
    /\ textLog' =
         Append(textLog,
                [ k |-> now.k, text |-> getMAVLinkSystemMsg(now).message,
                  zeroAt |-> TerminatorIndex(getMAVLinkSystemMsg(now).message) ])
    /\ UNCHANGED << missionVars, mavRates, mavTicks, cycle, trigCount, pollPos,
                    linkVars, accepted, battery, flight >>

\* The status text of a vehicle whose state stays as it is while the clock
\* runs.
InitStatusText ==
    /\ InitMission
    /\ InitSched
    /\ InitLink
    /\ InitPort
    /\ armed \in BOOLEAN
    /\ battery = MonitoredBattery
    /\ flight \in FlightStates
    /\ millis \in ClockStarts
    /\ textLog = << >>
    /\ mavRates = DefaultRates

NextStatusText == \E dt \in TextSteps : sendStatusText(millisAfter(millis, dt))

SpecStatusText == InitStatusText /\ [][NextStatusText]_vars

\* String constants of the greatest lengths STATUS_TEXT_STR lets through:
\* its compile-time check is _CONST_STR_SIZE(x) <= STATUS_TEXT_LENGTH.
AdmittedConstants ==
    { "ARMING IS DISABLED BY A CONDITION OF 49 CHARACTER",
      "ARMING IS DISABLED BY A CONDITION OF 50 CHARACTERS" }

\* The status text of a disarmed vehicle whose reason not to arm is any of
\* the messages of the file or a constant as long as the macro admits.
InitTextBuffer ==
    /\ InitMission
    /\ InitSched
    /\ InitLink
    /\ InitPort
    /\ armed \in BOOLEAN
    /\ battery = MonitoredBattery
    /\ flight \in FlightStates
                 \cup { [ QuietFlight EXCEPT !.armingDisabled = TRUE,
                                             !.disabledReason = reason ] :
                            reason \in AdmittedConstants }
    /\ millis \in ClockStarts
    /\ textLog = << >>
    /\ mavRates = DefaultRates

SpecTextBuffer == InitTextBuffer /\ [][NextStatusText]_vars

\* The rate scheduler call by call: the streams are polled one at a time.
NextPoll ==
    /\ cycle < MaxSeconds * TELEMETRY_MAVLINK_MAXRATE
    /\ pollStream
    /\ UNCHANGED << missionVars, linkVars, accepted, envVars >>

SpecPoll == InitTrigger /\ [][NextPoll]_vars

\* The link: the port receives frames and the orchestrator is called
\* periodically.
NextLink ==
    \/ \E item \in RxItems : serialReceive(item)
    \/ \E dt \in CycleSteps : handleMAVLinkTelemetry(currentTimeUs + dt)

SpecLink == Init /\ [][NextLink]_vars

\* The configurations the link is activated with: the default rates, or
\* those with the slowest stream switched off.
LifecycleConfigs == { DefaultRates, [ DefaultRates EXCEPT !["EXTRA3"] = 0 ] }

\* What the peer sends while the link goes up and down: an announcement of
\* two waypoints, requests to read the list, heartbeats.
LifecycleRx ==
    HeartbeatMsgs
        \cup { m \in CountMsgs : ForUs(m) /\ m.count = 2 }
        \cup { m \in RequestListMsgs : ForUs(m) }
        \cup { m \in RequestMsgs : ForUs(m) /\ m.seq = 0 }

\* Before the first activation: no port, telemetry disabled.
InitLifecycle ==
    /\ InitMission
    /\ InitSched
    /\ InitLink
    /\ InitEnv
    /\ mavlinkTelemetryEnabled = FALSE
    /\ mavlinkPort = NULL
    /\ mavRates = DefaultRates

\* The life of the link: the telemetry state is checked, the wire delivers
\* frames and the orchestrator is called periodically, whatever the state.
NextLifecycle ==
    \/ \E enable, opened \in BOOLEAN, config \in LifecycleConfigs :
            checkMAVLinkTelemetryState(enable, opened, config)
    \/ \E item \in LifecycleRx : serialReceive(item)
    \/ \E dt \in CycleSteps : handleMAVLinkTelemetry(currentTimeUs + dt)

SpecLifecycle == InitLifecycle /\ [][NextLifecycle]_vars

\* A position with fractions (floats): 53.687095642089844 and
\* -122.41940307617188 degrees, 120.2999038696289 meters.
FractionalPositions ==
    { [ x |-> [ m |-> 14073750, e |-> -18 ], y |-> [ m |-> -16045756, e |-> -17 ],
        z |-> [ m |-> 15767949, e |-> -17 ] ] }

\* A position with a latitude of 300.0 degrees.
FarPositions ==
    [ x : { [ m |-> 300 * 32768, e |-> -15 ] }, y : LonDegrees, z : AltMeters ]

WaypointKinds ==
    { [ command |-> "MAV_CMD_NAV_WAYPOINT", frame |-> "MAV_FRAME_GLOBAL_RELATIVE_ALT",
        autocontinue |-> 1 ] }

RoundTripItems ==
    ItemMsgsAt({ mavSystemId }, SeqValues, ValidKinds, FractionalPositions)
        \cup ItemMsgsAt({ mavSystemId }, SeqValues, WaypointKinds, FarPositions)

RoundTripCounts ==
    [ msgid : { "MISSION_COUNT" }, sysid : PeerSysIds, compid : PeerCompIds,
      target_system : { mavSystemId }, count : 0 .. NAV_MAX_WAYPOINTS ]

RoundTripRequests ==
    [ msgid : { "MISSION_REQUEST" }, sysid : PeerSysIds, compid : PeerCompIds,
      target_system : { mavSystemId }, seq : SeqValues ]

\* The frame is handled and the history of accepted items follows.
Observed(msg) ==
    /\ accepted' = AcceptedAfter(msg)
    /\ UNCHANGED << schedVars, linkVars, envVars >>

\* Uploads of positioned items and their reading back, on a disarmed vehicle.
NextRoundTrip ==
    \/ \E msg \in ClearMsgs : handleIncoming_MISSION_CLEAR_ALL(msg) /\ Observed(msg)
    \/ \E msg \in RoundTripCounts : handleIncoming_MISSION_COUNT(msg) /\ Observed(msg)
    \/ \E msg \in RoundTripItems : handleIncoming_MISSION_ITEM(msg) /\ Observed(msg)
    \/ \E msg \in RoundTripRequests : handleIncoming_MISSION_REQUEST(msg) /\ Observed(msg)

SpecRoundTrip == Init /\ [][NextRoundTrip]_vars

(***************************************************************************)
(* Properties of the mission transfer                                      *)
(***************************************************************************)
\* Well-formed items addressed to this system.
ValidItemsForUs == ItemMsgsOf({ mavSystemId }, SeqValues, ValidKinds)

\* The last call sent exactly one message, an acknowledgement of this type.
SentAck(type) ==
    /\ Len(txBuf) = 1
    /\ txBuf[1].msgid = "MISSION_ACK"
    /\ txBuf[1].type = type

\* The same of the call that ends the step.
SentAckNext(type) ==
    /\ Len(txBuf') = 1
    /\ txBuf'[1].msgid = "MISSION_ACK"
    /\ txBuf'[1].type = type

\* The last call sent exactly one message, a request for item seq.
SentRequest(seq) ==
    /\ Len(txBuf) = 1
    /\ txBuf[1].msgid = "MISSION_REQUEST"
    /\ txBuf[1].seq = seq

SentRequestNext(seq) ==
    /\ Len(txBuf') = 1
    /\ txBuf'[1].msgid = "MISSION_REQUEST"
    /\ txBuf'[1].seq = seq

\* The last frame decoded was of this kind and addressed to this system.
LastHandled(msgid) ==
    /\ mavRecvMsg.msgid = msgid
    /\ mavRecvMsg.target_system = mavSystemId

\* C1: after a List-Clear request addressed to this system is handled, from
\* any session state, the transfer session is idle: the expected count and
\* the next expected sequence number are both zero.
C1_ClearLeavesSessionIdle ==
    LastHandled("MISSION_CLEAR_ALL") =>
        /\ incomingMissionWpCount = 0
        /\ incomingMissionWpSequence = 0

\* C2: every List-Clear request addressed to this system, in any session
\* state, is answered with exactly one acknowledgement, ACCEPTED, and leaves
\* the mission list empty.
C2_ClearAcceptedAndListEmpty ==
    LastHandled("MISSION_CLEAR_ALL") =>
        /\ SentAck("MAV_MISSION_ACCEPTED")
        /\ handled
        /\ waypointCount = 0
        /\ waypointList = EmptyList

\* C2 witness: a List-Clear was handled while armed and while an upload was
\* in progress.
C2_Witness ==
    /\ LastHandled("MISSION_CLEAR_ALL")
    /\ armed
    /\ 0 < incomingMissionWpSequence
    /\ incomingMissionWpSequence < incomingMissionWpCount
    /\ waypointCount = 0

\* C3: in every reachable state
\* 0 <= wpSequence <= wpCount <= MAX_WAYPOINTS.
C3_CursorWithinCount ==
    /\ 0 <= incomingMissionWpSequence
    /\ incomingMissionWpSequence <= incomingMissionWpCount
    /\ incomingMissionWpCount <= NAV_MAX_WAYPOINTS

\* C4: when the item with seq + 1 = expected count is accepted, the session
\* is reset to the zero state, whatever the final acknowledgement.
C4_CompletionResetsSession ==
    [][ ~armed =>
        \A msg \in ValidItemsForUs :
          ( /\ msg.seq = incomingMissionWpSequence
            /\ msg.seq + 1 = incomingMissionWpCount
            /\ handleIncoming_MISSION_ITEM(msg) )
          => ( /\ incomingMissionWpCount' = 0
               /\ incomingMissionWpSequence' = 0 ) ]_vars

\* C5: while disarmed, Count(N) with 1 <= N <= MAX_WAYPOINTS followed by N
\* valid items 0..N-1 in strict order stores exactly N waypoints, of which
\* only the last carries the end-of-list flag; each item but the last is
\* answered with a request for the next sequence number, the last with
\* ACCEPTED if the list validation passes and with INVALID otherwise.
C5_StrictUploadStored ==
    upload.on =>
        /\ incomingMissionWpCount = upload.n
        /\ incomingMissionWpSequence = upload.k
        /\ handled
        /\ upload.k = 0 => SentRequest(0)
        /\ upload.k > 0 =>
             /\ waypointCount = upload.k
             /\ \A i \in Slots :
                  IF i <= upload.k
                  THEN /\ waypointList[i].action # "NONE"
                       /\ waypointList[i].flag = "NAV_WP_FLAG_LAST" <=> i = upload.n
                  ELSE waypointList[i] = NoWp
             /\ upload.k < upload.n => SentRequest(upload.k)
             /\ upload.k = upload.n =>
                  IF waypointListValid
                  THEN SentAck("MAV_MISSION_ACCEPTED")
                  ELSE SentAck("MAV_MISSION_INVALID")

\* C5 witness: a strictly ordered upload of a full list has completed and
\* the list did not pass validation.
C5_Witness ==
    /\ upload.on
    /\ upload.n = NAV_MAX_WAYPOINTS
    /\ upload.k = upload.n
    /\ waypointCount = NAV_MAX_WAYPOINTS
    /\ SentAck("MAV_MISSION_INVALID")

\* C6: an otherwise valid item whose seq differs from the expected one is
\* answered with INVALID_SEQUENCE and leaves the cursor and the list as they
\* were; the item with the expected seq is accepted in every state, so also
\* after such a rejection, and advances the cursor by one.
C6_WrongSequenceKeepsSession ==
    [][ ( ~armed /\ mavRecvMsg'.msgid = "MISSION_ITEM" ) =>
        \A msg \in ValidItemsForUs :
          handleIncoming_MISSION_ITEM(msg)
          => IF msg.seq # incomingMissionWpSequence
             THEN /\ SentAckNext("MAV_MISSION_INVALID_SEQUENCE")
                  /\ UNCHANGED << sessionVars, listVars >>
             ELSE /\ incomingMissionWpSequence' = incomingMissionWpSequence + 1
                  /\ UNCHANGED incomingMissionWpCount
                  /\ \/ SentRequestNext(incomingMissionWpSequence + 1)
                     \/ SentAckNext("MAV_MISSION_ACCEPTED")
                     \/ SentAckNext("MAV_MISSION_INVALID")
                  /\ incomingMissionWpSequence < incomingMissionWpCount =>
                       /\ waypointCount' = incomingMissionWpSequence + 1
                       /\ waypointList'[waypointCount'].action # "NONE" ]_vars

\* C6 witness: an item was rejected for its sequence number in the middle of
\* an upload, which is still awaiting the same item.
C6_Witness ==
    /\ LastHandled("MISSION_ITEM")
    /\ SentAck("MAV_MISSION_INVALID_SEQUENCE")
    /\ ~armed
    /\ 0 < incomingMissionWpSequence
    /\ incomingMissionWpSequence < incomingMissionWpCount
    /\ waypointCount = incomingMissionWpSequence

\* A step that handles a frame of this kind addressed to this system while
\* armed: the arming flag stays set and the frame is the one decoded last.
ArmedStepOn(msgid) ==
    /\ armed
    /\ armed'
    /\ mavRecvMsg'.msgid = msgid
    /\ mavRecvMsg'.target_system = mavSystemId

CountMsgsForUs == { m \in CountMsgs : ForUs(m) }

\* C7 as stated: every mutating mission request addressed to this system
\* and received while armed (List-Clear, Count, Item) is answered with ERROR
\* and leaves the mission list unchanged.
C7_ArmedRejectsEveryMutation ==
    [][ ( \/ ArmedStepOn("MISSION_CLEAR_ALL")
          \/ ArmedStepOn("MISSION_COUNT")
          \/ ArmedStepOn("MISSION_ITEM") )
        => ( SentAckNext("MAV_MISSION_ERROR") /\ UNCHANGED listVars ) ]_vars

\* C7 as amended: while armed an item upload, and a Count announcement
\* above the capacity, are answered with ERROR and leave the list and the
\* cursor unchanged; a Count announcement within the capacity opens an
\* upload and a List-Clear empties the list, exactly as while disarmed.
C7_ArmedRejectsItemAndOversizedCount ==
    [][ /\ ArmedStepOn("MISSION_ITEM") =>
             /\ SentAckNext("MAV_MISSION_ERROR")
             /\ UNCHANGED << sessionVars, listVars >>
        /\ ArmedStepOn("MISSION_COUNT") =>
             \A msg \in CountMsgsForUs :
                handleIncoming_MISSION_COUNT(msg) =>
                   IF msg.count > NAV_MAX_WAYPOINTS
                   THEN /\ SentAckNext("MAV_MISSION_ERROR")
                        /\ UNCHANGED << sessionVars, listVars >>
                   ELSE /\ SentRequestNext(0)
                        /\ incomingMissionWpCount' = msg.count
                        /\ incomingMissionWpSequence' = 0
                        /\ UNCHANGED listVars
        /\ ArmedStepOn("MISSION_CLEAR_ALL") =>
             /\ SentAckNext("MAV_MISSION_ACCEPTED")
             /\ waypointCount' = 0
             /\ UNCHANGED sessionVars ]_vars

\* C7 witness: an item upload was refused with ERROR while armed, with a
\* stored list and an upload in progress.
C7_Witness ==
    /\ armed
    /\ LastHandled("MISSION_ITEM")
    /\ SentAck("MAV_MISSION_ERROR")
    /\ waypointCount > 0
    /\ incomingMissionWpSequence < incomingMissionWpCount

\* C8: a Count announcement above the capacity leaves the cursor as it was
\* and is answered with ERROR when armed and with NO_SPACE when disarmed.
C8_OversizedCountKeepsSession ==
    [][ \A msg \in CountMsgs :
          ( /\ ForUs(msg)
            /\ msg.count > NAV_MAX_WAYPOINTS
            /\ handleIncoming_MISSION_COUNT(msg) )
          => /\ UNCHANGED << sessionVars, listVars >>
             /\ IF armed
                THEN SentAckNext("MAV_MISSION_ERROR")
                ELSE SentAckNext("MAV_MISSION_NO_SPACE") ]_vars

\* C8 witness: an oversized announcement was refused with NO_SPACE in the
\* middle of an upload.
C8_Witness ==
    /\ LastHandled("MISSION_COUNT")
    /\ SentAck("MAV_MISSION_NO_SPACE")
    /\ 0 < incomingMissionWpSequence
    /\ incomingMissionWpSequence < incomingMissionWpCount

\* C9: a Count announcement within the capacity, in any state, sets the
\* expected count, sets the cursor to 0 and requests item 0; the cursor
\* moves only by such an announcement or by an accepted item, and an item
\* is accepted only with the expected sequence number, so the next item
\* accepted after the announcement is item 0.
C9_CountSupersedesSession ==
    [][ /\ \A msg \in CountMsgs :
             ( /\ ForUs(msg)
               /\ msg.count <= NAV_MAX_WAYPOINTS
               /\ handleIncoming_MISSION_COUNT(msg) )
             => /\ incomingMissionWpCount' = msg.count
                /\ incomingMissionWpSequence' = 0
                /\ SentRequestNext(0)
                /\ handled'
        /\ ( sessionVars' # sessionVars )
             => \/ \E msg \in CountMsgs :
                     /\ ForUs(msg)
                     /\ msg.count <= NAV_MAX_WAYPOINTS
                     /\ handleIncoming_MISSION_COUNT(msg)
                \/ \E msg \in ItemMsgs :
                     /\ ForUs(msg)
                     /\ msg.seq = incomingMissionWpSequence
                     /\ incomingMissionWpSequence' = incomingMissionWpSequence + 1
                     /\ handleIncoming_MISSION_ITEM(msg) ]_vars

\* C9 witness: an announcement arrived while an upload was in progress (the
\* stored list ends with an item that is not the last one) and item 0 is
\* requested anew.
C9_Witness ==
    /\ LastHandled("MISSION_COUNT")
    /\ SentRequest(0)
    /\ incomingMissionWpSequence = 0
    /\ waypointCount > 0
    /\ waypointList[waypointCount].flag = "NONE"
    /\ incomingMissionWpCount # 0

\* The step handles a frame of this kind addressed to this system.
StepOn(msgid) ==
    /\ armed' = armed
    /\ mavRecvMsg'.msgid = msgid
    /\ mavRecvMsg'.target_system = mavSystemId

\* C15: a mission message (Clear, Count, Item, List-request, Item-request)
\* whose target system id is not this vehicle's produces no outbound message,
\* changes neither the session cursor nor the mission list and is reported
\* as not handled.
C15_NotForUsIgnored ==
    [][ ( /\ armed' = armed
          /\ mavRecvMsg'.msgid \in MissionIds
          /\ mavRecvMsg'.target_system # mavSystemId )
        => ( /\ txBuf' = << >>
             /\ ~handled'
             /\ UNCHANGED << sessionVars, listVars >> ) ]_vars

\* An item addressed to another system arrived in the middle of an upload.
C15_Witness ==
    /\ mavRecvMsg.msgid = "MISSION_ITEM"
    /\ mavRecvMsg.target_system # mavSystemId
    /\ ~handled
    /\ txBuf = << >>
    /\ incomingMissionWpCount > 0
    /\ waypointCount > 0

\* C16: every mission message whose target system id matches this vehicle
\* is reported as handled, whatever the reply, rejections included.
C16_ForUsAlwaysHandled ==
    ( mavRecvMsg.msgid \in MissionIds /\ mavRecvMsg.target_system = mavSystemId )
        => handled

\* An oversized announcement was refused and reported as handled.
C16_Witness ==
    /\ LastHandled("MISSION_COUNT")
    /\ SentAck("MAV_MISSION_NO_SPACE")
    /\ handled

\* Items that pass the command check: continued automatically, a waypoint
\* or a return-to-launch, in any frame.
FrameCheckedItems ==
    ItemMsgsOf({ mavSystemId }, { 0, 1 },
               [ command : { "MAV_CMD_NAV_WAYPOINT", "MAV_CMD_NAV_RETURN_TO_LAUNCH" },
                 frame : Frames, autocontinue : { 1 } ])

\* The frame the transfer protocol pairs with the command.
FrameOfCommand(msg) ==
    \/ msg.command = "MAV_CMD_NAV_WAYPOINT" /\ msg.frame = "MAV_FRAME_GLOBAL_RELATIVE_ALT"
    \/ msg.command = "MAV_CMD_NAV_RETURN_TO_LAUNCH" /\ msg.frame = "MAV_FRAME_MISSION"

\* C17: a disarmed item upload with autocontinue != 0 whose frame is not the
\* one of its command (relative altitude for a waypoint, mission for a
\* return-to-launch) is answered UNSUPPORTED_FRAME and stores nothing.
C17_FrameMustMatchCommand ==
    [][ ( ~armed /\ StepOn("MISSION_ITEM") ) =>
          \A msg \in FrameCheckedItems :
              ( ~FrameOfCommand(msg) /\ handleIncoming_MISSION_ITEM(msg) ) =>
                  /\ SentAckNext("MAV_MISSION_UNSUPPORTED_FRAME")
                  /\ UNCHANGED << sessionVars, listVars >> ]_vars

\* C17 as amended: such an item is answered UNSUPPORTED_FRAME and stores
\* nothing exactly when its frame is neither the relative-altitude frame
\* nor, for a return-to-launch, the mission frame; a return-to-launch in the
\* relative-altitude frame passes the frame check like a waypoint does.
C17_FrameRejectedUnlessRelativeOrRTLMission ==
    [][ ( ~armed /\ StepOn("MISSION_ITEM") ) =>
          \A msg \in FrameCheckedItems :
              handleIncoming_MISSION_ITEM(msg) =>
                  IF \/ msg.frame = "MAV_FRAME_GLOBAL_RELATIVE_ALT"
                     \/ /\ msg.frame = "MAV_FRAME_MISSION"
                        /\ msg.command = "MAV_CMD_NAV_RETURN_TO_LAUNCH"
                  THEN /\ ~SentAckNext("MAV_MISSION_UNSUPPORTED_FRAME")
                       /\ msg.seq = incomingMissionWpSequence =>
                              incomingMissionWpSequence' = incomingMissionWpSequence + 1
                  ELSE /\ SentAckNext("MAV_MISSION_UNSUPPORTED_FRAME")
                       /\ UNCHANGED << sessionVars, listVars >> ]_vars

\* A disarmed item was refused for its frame during an upload.
C17_Witness ==
    /\ ~armed
    /\ LastHandled("MISSION_ITEM")
    /\ SentAck("MAV_MISSION_UNSUPPORTED_FRAME")
    /\ incomingMissionWpCount > 0

NegativeItemAcks ==
    { "MAV_MISSION_ERROR", "MAV_MISSION_UNSUPPORTED", "MAV_MISSION_UNSUPPORTED_FRAME",
      "MAV_MISSION_INVALID_SEQUENCE" }

\* C18: an item upload answered with a negative acknowledgement (ERROR,
\* UNSUPPORTED, UNSUPPORTED_FRAME, INVALID_SEQUENCE) leaves the expected
\* count, the expected sequence number and the stored list as they were.
C18_RejectedItemChangesNothing ==
    [][ ( /\ StepOn("MISSION_ITEM")
          /\ Len(txBuf') = 1
          /\ txBuf'[1].msgid = "MISSION_ACK"
          /\ txBuf'[1].type \in NegativeItemAcks )
        => UNCHANGED << sessionVars, listVars >> ]_vars

\* An unsupported item was refused while waypoints were stored.
C18_Witness ==
    /\ LastHandled("MISSION_ITEM")
    /\ SentAck("MAV_MISSION_UNSUPPORTED")
    /\ incomingMissionWpCount > 0
    /\ waypointCount > 0

RequestMsgsForUs ==
    [ msgid : { "MISSION_REQUEST" }, sysid : PeerSysIds, compid : PeerCompIds,
      target_system : { mavSystemId }, seq : SeqValues ]

\* C19: an Item-request(seq) addressed to this system is answered with the
\* waypoint stored for seq (mission frame and RETURN_TO_LAUNCH when its
\* action is RTH, relative-altitude frame and WAYPOINT otherwise) when
\* seq < length of the list, with INVALID_SEQUENCE when seq >= length; a
\* List-request is answered with the length; none of them changes the
\* session cursor or the list.
C19_RequestsReadOnly ==
    [][ /\ StepOn("MISSION_REQUEST") =>
            \A msg \in RequestMsgsForUs :
                ( /\ txBuf'[1].msgid = "MISSION_ITEM" => txBuf'[1].seq = msg.seq
                  /\ handleIncoming_MISSION_REQUEST(msg) ) =>
                    /\ UNCHANGED << sessionVars, listVars >>
                    /\ IF msg.seq < waypointCount
                       THEN LET rth == waypointList[msg.seq + 1].action
                                            = "NAV_WP_ACTION_RTH"
                            IN  /\ Len(txBuf') = 1
                                /\ txBuf'[1].msgid = "MISSION_ITEM"
                                /\ txBuf'[1].seq = msg.seq
                                /\ txBuf'[1].frame =
                                      IF rth THEN "MAV_FRAME_MISSION"
                                             ELSE "MAV_FRAME_GLOBAL_RELATIVE_ALT"
                                /\ txBuf'[1].command =
                                      IF rth THEN "MAV_CMD_NAV_RETURN_TO_LAUNCH"
                                             ELSE "MAV_CMD_NAV_WAYPOINT"
                       ELSE SentAckNext("MAV_MISSION_INVALID_SEQUENCE")
        /\ StepOn("MISSION_REQUEST_LIST") =>
            /\ UNCHANGED << sessionVars, listVars >>
            /\ Len(txBuf') = 1
            /\ txBuf'[1].msgid = "MISSION_COUNT"
            /\ txBuf'[1].count = waypointCount ]_vars

\* A stored return-to-launch was read back.
C19_Witness ==
    /\ LastHandled("MISSION_REQUEST")
    /\ Len(txBuf) = 1
    /\ txBuf[1].msgid = "MISSION_ITEM"
    /\ txBuf[1].command = "MAV_CMD_NAV_RETURN_TO_LAUNCH"

\* The guards of the item handler an item violates, in the order of their
\* priority: 1 armed, 2 command or autocontinue, 3 frame, 4 sequence number.
GuardsViolated(msg) ==
    ( IF armed THEN { 1 } ELSE { } )
        \cup ( IF \/ msg.autocontinue = 0
                  \/ msg.command \notin { "MAV_CMD_NAV_WAYPOINT",
                                          "MAV_CMD_NAV_RETURN_TO_LAUNCH" }
               THEN { 2 } ELSE { } )
        \cup ( IF \/ msg.frame = "MAV_FRAME_GLOBAL_RELATIVE_ALT"
                  \/ /\ msg.frame = "MAV_FRAME_MISSION"
                     /\ msg.command = "MAV_CMD_NAV_RETURN_TO_LAUNCH"
               THEN { } ELSE { 3 } )
        \cup ( IF msg.seq = incomingMissionWpSequence THEN { } ELSE { 4 } )

\* The acknowledgement that answers the violation of a guard.
GuardAck(g) ==
    CASE g = 1 -> "MAV_MISSION_ERROR"
      [] g = 2 -> "MAV_MISSION_UNSUPPORTED"
      [] g = 3 -> "MAV_MISSION_UNSUPPORTED_FRAME"
      [] g = 4 -> "MAV_MISSION_INVALID_SEQUENCE"

\* C27: the guards of an item upload are checked in the order armed,
\* unsupported command or autocontinue, unsupported frame, sequence number:
\* an item that violates one or more of them is answered with exactly one
\* acknowledgement, which carries the code of the first guard violated (an
\* armed upload with a wrong sequence number gets ERROR).
C27_GuardPriority ==
    [][ StepOn("MISSION_ITEM") =>
            \A msg \in ItemMsgsForUs :
                LET violated == GuardsViolated(msg)
                    first == CHOOSE g \in violated : \A h \in violated : g <= h
                IN  \/ violated = { }
                    \/ SentAckNext(GuardAck(first))
                    \/ ~handleIncoming_MISSION_ITEM(msg) ]_vars

\* An armed item was answered with ERROR when the cursor stood beyond every
\* sequence number an item carries: the item had a wrong number as well.
C27_Witness ==
    /\ armed
    /\ LastHandled("MISSION_ITEM")
    /\ SentAck("MAV_MISSION_ERROR")
    /\ incomingMissionWpSequence \notin SeqValues

\* The slot the step stores an item in, when it stores one: the cursor moves
\* on by one and the item goes to the slot of the new cursor.
Stored(slot) ==
    /\ StepOn("MISSION_ITEM")
    /\ incomingMissionWpSequence' = incomingMissionWpSequence + 1
    /\ slot = incomingMissionWpSequence'

\* C30: whatever mission messages arrive, the index the item handler hands
\* to setWaypoint lies in 1..NAV_MAX_WAYPOINTS and is at most the expected
\* count of the session.
C30_StoreIndexInRange ==
    [][ \A slot \in 1 .. ( NAV_MAX_WAYPOINTS + 2 ) : Stored(slot) =>
            /\ slot \in 1 .. NAV_MAX_WAYPOINTS
            /\ slot <= incomingMissionWpCount ]_vars

\* No session is in progress: nothing was announced, or every announced
\* item has arrived.
NoSessionInProgress == incomingMissionWpSequence >= incomingMissionWpCount

\* C31: waypoints are stored only while a session opened by a Count
\* announcement is in progress; in particular, in the initial state (count 0,
\* cursor 0) an item upload received while disarmed, the valid one with
\* sequence number 0 included, leaves the mission list as it is.
C31_IdleItemStoresNothing ==
    [][ ( StepOn("MISSION_ITEM") /\ ~armed /\ NoSessionInProgress ) =>
            UNCHANGED listVars ]_vars

\* C32: every item request sent to the peer, after a Count announcement or
\* after an accepted item, names a sequence number strictly less than the
\* expected count of the session; a Count(0) announcement solicits no item.
C32_RequestsBelowCount ==
    [][ ( StepOn("MISSION_COUNT") \/ StepOn("MISSION_ITEM") ) =>
            \A i \in DOMAIN txBuf' :
                txBuf'[i].msgid = "MISSION_REQUEST" =>
                    txBuf'[i].seq < incomingMissionWpCount' ]_vars

(***************************************************************************)
(* Properties of the rate scheduler                                        *)
(***************************************************************************)
\* C10: with the trigger polled once per cycle at max_rate cycles per
\* second, a stream of configured rate r, 0 < r <= max_rate, has triggered
\* k * r times, within one, after k seconds; a stream of rate 0 has never
\* triggered.
C10_TriggersPerSecond ==
    \A s \in StreamSet : \A k \in 1 .. MaxSeconds :
        cycle = k * TELEMETRY_MAVLINK_MAXRATE =>
            /\ mavRates[s] = 0 => trigCount[s] = 0
            /\ ( 0 < mavRates[s] /\ mavRates[s] <= TELEMETRY_MAVLINK_MAXRATE ) =>
                 /\ trigCount[s] >= k * mavRates[s] - 1
                 /\ trigCount[s] <= k * mavRates[s] + 1

(***************************************************************************)
(* Properties of the orchestrator and the inbound decoder                  *)
(***************************************************************************)
\* The step is a call of the orchestrator.
Tick == ticks' = ticks + 1

\* The minimum interval between two batches has elapsed at the call.
IntervalElapsed == currentTimeUs' - lastMavlinkMessage >= TELEMETRY_MAVLINK_DELAY

\* C11: in an orchestrator cycle in which the inbound decoder handled a
\* message the scheduled batch is not run (no stream is polled, nothing is
\* sent), also when the minimum interval between two batches has elapsed.
C11_HandledCycleSkipsBatch ==
    [][ (Tick /\ handled') => (~batchRun' /\ UNCHANGED << mavTicks, batchBuf, cycle >>) ]_vars

\* A cycle that handled a message at a time the interval had elapsed (the
\* time was stamped) and ran no batch.
C11_Witness ==
    /\ ticks > 0
    /\ handled
    /\ lastMavlinkMessage = currentTimeUs
    /\ ~batchRun

\* C12: in every orchestrator cycle in which the minimum interval has elapsed
\* since the last batch and the decoder handled no message in that cycle,
\* the scheduled batch is run (all six streams are polled) and the current
\* time is stamped.
C12_QuietCycleRunsBatch ==
    [][ (Tick /\ IntervalElapsed /\ ~handled') =>
            /\ batchRun'
            /\ cycle' = cycle + 1
            /\ lastMavlinkMessage' = currentTimeUs' ]_vars

\* C13: one call of the inbound decoder decodes at most one complete frame.
C13_OneFramePerCall == framesDecoded <= 1

\* C14: a decoded heartbeat is reported to the orchestrator as handled, a
\* decoded frame of any other message id without a handler as not handled.
C14_HeartbeatHandledOthersNot ==
    /\ (framesDecoded >= 1 /\ mavRecvMsg.msgid = "HEARTBEAT") => handled
    /\ (framesDecoded >= 1 /\ mavRecvMsg.msgid = "PARAM_REQUEST_LIST") => ~handled

\* A value a field takes when what it reports is not measured.
ZeroOrSentinel == { 0, -1 }

\* C24: in every message sent that carries them, the battery voltage and the
\* remaining percentage are 0 or the sentinel (-1; in the unsigned cell
\* voltages, all bits set) when voltage metering is disabled, and the battery
\* current is 0 or -1 when current metering is disabled.
C24_BatterySentinels ==
    \A i \in DOMAIN batchBuf :
        LET m == batchBuf[i] IN
        /\ m.msgid = "SYS_STATUS" =>
                /\ ~battery.vbat =>
                        /\ m.voltage_battery \in ZeroOrSentinel
                        /\ m.battery_remaining \in ZeroOrSentinel
                /\ ~battery.amperage => m.current_battery \in ZeroOrSentinel
        /\ m.msgid = "BATTERY_STATUS" =>
                /\ ~battery.vbat =>
                        /\ \A cell \in DOMAIN m.voltages :
                                m.voltages[cell] \in ZeroOrSentinel \cup { UINT16_MAX }
                        /\ m.battery_remaining \in ZeroOrSentinel
                /\ ~battery.amperage => m.current_battery \in ZeroOrSentinel

\* The second (the value of millis() / 1000) that follows second k: the
\* counter wraps in the course of second MillisWrapK.
NextSecond(k) == IF k = MillisWrapK THEN 0 ELSE k + 1

\* The places of the log where a new second begins.
NewSecond == { i \in DOMAIN textLog : i = 1 \/ textLog[i - 1].k # textLog[i].k }

\* The places of the log where the second that follows the one before begins.
FollowingSecond ==
    { i \in NewSecond : i > 1 /\ textLog[i].k = NextSecond(textLog[i - 1].k) }

\* The seconds of the log from the one that begins at place i up to the
\* n-th, as far as they follow one another.
SecondsFrom(i, n) ==
    { j \in NewSecond :
        /\ j >= i
        /\ Cardinality({ h \in NewSecond : i <= h /\ h <= j }) <= n
        /\ \A h \in NewSecond : ( i < h /\ h <= j ) => h \in FollowingSecond }

\* C25: with n >= 1 candidate strings that stay as they are, the string
\* selected depends on the time alone, through the index (ms / 1000) mod n:
\* it stays for the second, changes with every new second, and in any n
\* seconds that follow one another every candidate is selected once.
C25_RotationByTime ==
    LET n == Len(messages) IN
    ( armed /\ n >= 1 ) =>
        /\ \A i \in DOMAIN textLog :
                textLog[i].text = messages[( textLog[i].k % n ) + 1]
        /\ \A i, j \in DOMAIN textLog :
                textLog[i].k = textLog[j].k => textLog[i].text = textLog[j].text
        /\ \A i \in FollowingSecond :
                n >= 2 => textLog[i].text # textLog[i - 1].text
        /\ \A i \in NewSecond :
                Cardinality(SecondsFrom(i, n)) = n =>
                    /\ { textLog[j].text : j \in SecondsFrom(i, n) } =
                            { messages[c] : c \in 1 .. n }
                    /\ \A j, h \in SecondsFrom(i, n) :
                            textLog[j].text = textLog[h].text => j = h

\* Four candidates have been rotated through while the millisecond counter
\* wrapped: more than four seconds are logged, the last before the first.
C25_Witness ==
    /\ armed
    /\ Len(messages) = 4
    /\ Cardinality(FollowingSecond) > 4
    /\ textLog[Len(textLog)].k < textLog[1].k

\* The stream polled by the step, if the step is a poll.
Polled(streamNum) == pollPos' # pollPos /\ streamNum = Streams[pollPos + 1]

\* The poll returned true.
Fired(streamNum) == trigCount'[streamNum] = trigCount[streamNum] + 1

\* C26: one call of the trigger for a stream with a rate and a counter of 0
\* returns true and reloads the counter with the largest q such that q
\* times the rate, clamped to the cycle rate, is at most the cycle rate;
\* with a rate and a counter above 0 it returns false and takes one off the
\* counter; with rate 0 it returns false and leaves the counter alone.  The
\* counters of the other streams are never touched.
C26_TriggerCall ==
    [][ \A s \in StreamSet : Polled(s) =>
            LET rate == mavRates[s]
                clamped == Min(rate, TELEMETRY_MAVLINK_MAXRATE)
            IN  /\ ( rate # 0 /\ mavTicks[s] = 0 ) =>
                        /\ Fired(s)
                        /\ mavTicks'[s] * clamped <= TELEMETRY_MAVLINK_MAXRATE
                        /\ ( mavTicks'[s] + 1 ) * clamped > TELEMETRY_MAVLINK_MAXRATE
                /\ ( rate # 0 /\ mavTicks[s] # 0 ) =>
                        /\ ~Fired(s)
                        /\ mavTicks'[s] = mavTicks[s] - 1
                /\ rate = 0 =>
                        /\ ~Fired(s)
                        /\ mavTicks'[s] = mavTicks[s]
                /\ \A t \in StreamSet \ { s } :
                        mavTicks'[t] = mavTicks[t] /\ trigCount'[t] = trigCount[t] ]_vars

\* A stream asked for faster than the cycle rate has fired, been reloaded
\* with one tick, counted down and fired again, while a stream polled after
\* it is still counting.
C26_Witness ==
    \E s \in StreamSet :
        /\ mavRates[s] > TELEMETRY_MAVLINK_MAXRATE
        /\ trigCount[s] = 2
        /\ mavTicks[s] = 1
        /\ mavTicks["EXTRA3"] > 1

\* The call of the orchestrator found the link down.
LinkDown == ~mavlinkTelemetryEnabled \/ mavlinkPort = NULL

\* C21: while the port is unset or telemetry is disabled, a call of the
\* orchestrator does nothing: nothing is read from the port or parsed, no
\* message is sent, and the stream counters, the time stamp of the last
\* batch and the upload session stay as they were.
C21_DownLinkCallIsNoOp ==
    [][ ( Tick /\ LinkDown ) =>
            /\ UNCHANGED << rxQueue, mavRecvMsg, handled >>
            /\ framesDecoded' = 0
            /\ txBuf' = << >>
            /\ ~batchRun'
            /\ UNCHANGED << batchBuf, cycle, trigCount >>
            /\ UNCHANGED << mavTicks, mavRates, lastMavlinkMessage,
                            incomingRequestServed >>
            /\ UNCHANGED << sessionVars, listVars >> ]_vars

\* The orchestrator has been called on a closed link, at a time when a batch
\* was due and with a frame waiting on the wire.
C21_Witness ==
    /\ LinkDown
    /\ ticks >= 1
    /\ rxQueue # << >>
    /\ currentTimeUs - lastMavlinkMessage >= TELEMETRY_MAVLINK_DELAY

\* The step activates the link.
Activation == ~mavlinkTelemetryEnabled /\ mavlinkTelemetryEnabled'

\* C22: at every activation of the link, the first or a later one, the six
\* stream counters are zero and the rates are those of the configuration
\* (so every stream with a rate fires in the first batch); between
\* activations only the rate scheduler changes the counters.
C22_ActivationResetsTicks ==
    [][ /\ Activation =>
            /\ mavTicks' = [ s \in StreamSet |-> 0 ]
            /\ mavRates' \in LifecycleConfigs
        /\ ( mavTicks' # mavTicks ) => ( Activation \/ batchRun' ) ]_vars

\* The step decodes a frame of a mission upload addressed to this system.
UploadInput ==
    /\ framesDecoded' > 0
    /\ Tick
    /\ mavRecvMsg'.msgid \in { "MISSION_CLEAR_ALL", "MISSION_COUNT", "MISSION_ITEM" }

\* The session waits for an item.
AwaitingItem ==
    /\ incomingMissionWpCount > 0
    /\ incomingMissionWpSequence < incomingMissionWpCount

\* C23: a session waiting for an item stays as it is, expected count and
\* cursor, through every step that brings no frame of an upload: cycles
\* with or without a scheduled batch, requests that read the list, the link
\* going down and up.  Nothing times it out.
C23_SessionPersists ==
    [][ ( AwaitingItem /\ ~UploadInput ) => UNCHANGED sessionVars ]_vars

\* The session opened by the announcement of two waypoints has since seen a
\* scheduled batch, a request for the list and the link going down.
C23_Witness ==
    /\ incomingMissionWpCount = 2
    /\ incomingMissionWpSequence = 0
    /\ cycle >= 1
    /\ mavRecvMsg.msgid = "MISSION_REQUEST_LIST"
    /\ LinkDown

C29_RestampAtEveryExpiry ==
    [][ ( Tick /\ ~LinkDown ) =>
            /\ IntervalElapsed => lastMavlinkMessage' = currentTimeUs'
            /\ batchRun' => currentTimeUs' - expiryUs >= TELEMETRY_MAVLINK_DELAY
            /\ ( IntervalElapsed /\ ~batchRun' ) => UNCHANGED mavTicks ]_vars

\* The first batch has just run, two intervals or more after the start: the
\* expiry before it was skipped.
C29_Witness ==
    /\ batchRun
    /\ cycle = 1
    /\ expiryUs = currentTimeUs
    /\ currentTimeUs >= 2 * TELEMETRY_MAVLINK_DELAY

\* What the call of the decoder has read of the buffered input.
Consumed == SubSeq(rxQueue, 1, Len(rxQueue) - Len(rxQueue'))

\* The places of the buffered input that hold a heartbeat and are followed,
\* with nothing but heartbeats and incomplete frames between, by the mission
\* frame at place j.
HeartbeatsBefore(j) ==
    { i \in 1 .. ( j - 1 ) :
        /\ rxQueue[i].msgid = "HEARTBEAT"
        /\ \A h \in 1 .. ( j - 1 ) : rxQueue[h].msgid \in { "HEARTBEAT", "NONE" } }

F32Within(x, r, unitsPerOne) ==
    LET ex == IF x.m = 0 THEN r.e ELSE x.e
        er == IF r.m = 0 THEN ex ELSE r.e
        e0 == IF ex < er THEN ex ELSE er
        diff == Abs(x.m * Pow2(ex - e0) - r.m * Pow2(er - e0))
        over == diff - Pow2(ex - e0)
    IN  /\ ex - e0 <= 6
        /\ er - e0 <= 6
        /\ \/ over <= 0
           \/ /\ e0 < 0
              /\ -e0 <= 30
              /\ over <= Pow2(-e0) \div unitsPerOne

\* C20: a waypoint accepted in an upload at sequence number k is returned by
\* a later Item-request(k): an item with sequence number k and the same
\* command, whose latitude, longitude and altitude equal the uploaded ones
\* within one unit of rounding (one unit in the last place of the uploaded
\* float plus one unit of the stored integer: 1e-7 degree, 1 centimeter).
C20_RoundTrip ==
    [][ ( accepted.on /\ StepOn("MISSION_REQUEST") ) =>
          \A msg \in RoundTripRequests :
              ( msg.seq = accepted.seq /\ handleIncoming_MISSION_REQUEST(msg) ) =>
                  /\ Len(txBuf') = 1
                  /\ txBuf'[1].msgid = "MISSION_ITEM"
                  /\ txBuf'[1].seq = accepted.seq
                  /\ txBuf'[1].command = accepted.command
                  /\ F32Within(accepted.x, txBuf'[1].x, 10000000)
                  /\ F32Within(accepted.y, txBuf'[1].y, 10000000)
                  /\ F32Within(accepted.z, txBuf'[1].z, 100) ]_vars

=============================================================================
